---- MODULE Spec2Model ----
(***************************************************************************)
(* Retrieval orchestration and context assembly of the Shakespeare RAG     *)
(* chatbot: ShakespeareAIClient (shakespeare_ai.py), ShakespeareSearch-    *)
(* Client (shakespeare_search.py), ShakespeareSemanticProcessor            *)
(* (shakespeare_semantic.py) and ShakespeareCoreProcessor                  *)
(* (shakespeare_core.py).                                                  *)
(*                                                                         *)
(* Conventions.  A Python str is a sequence of tokens (words, separators   *)
(* such as ", " or ": ", single blanks), so that concatenation is \o and   *)
(* strip/split/lower are computed on the tokens.  A relevance score or a   *)
(* distance is an integer number of hundredths (0.1 is 10, 1.0 is 100).    *)
(* Python None for an optional number is the value None below.  A function *)
(* that can raise returns a record whose field raised tells whether it did.*)
(***************************************************************************)
EXTENDS Integers, Sequences, FiniteSets, TLC

VARIABLES
    connected,            \* ShakespeareCoreProcessor._connected
    client,               \* ShakespeareAIClient.client is not None
    pc,                   \* position of the call in progress
    req,                  \* arguments of the call in progress
    relevant_collections, \* process_query: relevant_collections
    pending,              \* partitions the search loop has still to visit
    search_results,       \* process_query: search_results (insertion-ordered dict)
    quality_analysis,     \* process_query: quality_analysis
    context_parts,        \* process_query: context_parts
    citation_parts,       \* process_query: citation_parts
    response,             \* value returned to the caller of the orchestrator
    calls,                \* backend calls issued so far by the call in progress
    raised,               \* an exception was raised inside the try block
    backend,              \* behaviour of the collaborators during the call
    ret                   \* value returned by the function under study

vars == <<connected, client, pc, req, relevant_collections, pending,
          search_results, quality_analysis, context_parts, citation_parts,
          response, calls, raised, backend, ret>>

pipelineLocals == <<relevant_collections, pending, search_results,
                    quality_analysis, context_parts, citation_parts>>

(***************************************************************************)
(* Bounds of the model.                                                    *)
(***************************************************************************)
MaxRespLen == 4   \* tokens in a classification response
MaxObjs == 2      \* objects one Corpus Store query returns
PlayLen == 4      \* passages of the modelled play
MaxMatches == 3   \* matches in one result set
MaxHits == 1      \* objects the store returns during one query operation
MaxChunks == 4    \* chunks one range fetch returns
MaxSeq == 8       \* largest sequence number of a matched passage
MaxAsked == 2     \* entries of collection_types given to the search loop
MaxListed == 2    \* objects a partition's query returns to the search loops
MaxCited == 2     \* matches of the partition whose citations are built
MaxRanked == 4    \* matches in one ranked result set
MaxPairs == 6     \* (context, citation) pairs handed to generate_response
MaxWords == 3     \* words of a query given to the templated answer
MaxTurns == 7     \* turns of the longest conversation history

(***************************************************************************)
(* Constants of the program.                                               *)
(***************************************************************************)
One == 100               \* 1.0
RelevanceThreshold == 10 \* 0.1
ContextRadius == 5
FetchLimit == 20
MaxContexts == 5         \* context_parts[:5]
HistoryWindow == 6       \* conversation_history[-6:]
MinGenerated == 10
IteratorLimit == 50000       \* len(generated_response) > 10

(***************************************************************************)
(* Python values.                                                          *)
(***************************************************************************)
None == -1

Min(a, b) == IF a < b THEN a ELSE b

\* s[:n]
Take(s, n) == SubSeq(s, 1, Min(n, Len(s)))

\* s[-n:]
Last(s, n) == SubSeq(s, Len(s) - Min(n, Len(s)) + 1, Len(s))

\* str(n) for a small natural number
Str(n) == <<"0", "1", "2", "3", "4", "5", "6", "7", "8", "9", "10", "11", "12">>[n + 1]

\* every sequence over S of length at most n
SeqUpTo(S, n) == UNION {[1..k -> S] : k \in 0..n}

\* str.lower(), token by token
LowerToken(t) ==
    CASE t = "PLAYS" -> "plays"
      [] t = "Sonnets" -> "sonnets"
      [] t = "Who is" -> "who is"
      [] t = "What" -> "what"
      [] t = "Who Was" -> "who was"
      [] t = "SAYS" -> "says"
      [] OTHER -> t

Lower(s) == [i \in 1..Len(s) |-> LowerToken(s[i])]

RECURSIVE LStrip(_)
LStrip(s) == IF s # <<>> /\ Head(s) = " " THEN LStrip(Tail(s)) ELSE s

RECURSIVE RStrip(_)
RStrip(s) ==
    IF s # <<>> /\ s[Len(s)] = " " THEN RStrip(SubSeq(s, 1, Len(s) - 1)) ELSE s

\* str.strip()
Strip(s) == RStrip(LStrip(s))

\* position of the first token sep in s, 0 when there is none
RECURSIVE Find(_, _, _)
Find(s, sep, i) ==
    IF i > Len(s) THEN 0 ELSE IF s[i] = sep THEN i ELSE Find(s, sep, i + 1)

\* str.split(sep): the list of pieces, [s] when sep does not occur
RECURSIVE Split(_, _)
Split(s, sep) ==
    LET i == Find(s, sep, 1)
    IN  IF i = 0 THEN <<s>>
        ELSE <<SubSeq(s, 1, i - 1)>> \o Split(SubSeq(s, i + 1, Len(s)), sep)

(***************************************************************************)
(* ShakespeareAIClient.determine_relevant_collections                      *)
(***************************************************************************)
\* the fallback list ["plays", "sonnets", "poems"]
AllCollections == <<"plays", "sonnets", "poems">>

PartitionKeys == {"plays", "sonnets", "poems"}

\* what chat.completions.create can do on the classification call:
\*   raise an exception; return no choices; return a choice whose content is
\*   None; return a choice with a text (possibly empty)
ClassifyTokens == {"plays", "sonnets", "poems", "PLAYS", " ", ",", "hamlet"}

ClassifyResponses ==
    {[kind |-> k, content |-> <<>>] : k \in {"raise", "no_choices", "no_content"}}
    \cup {[kind |-> "text", content |-> t] : t \in SeqUpTo(ClassifyTokens, MaxRespLen)}

\* response.choices and response.choices[0].message.content
HasContent(resp) == resp.kind = "text" /\ resp.content # <<>>

\* lines 111-115: the valid tokens of the response, in order
ValidCollections(resp) ==
    LET collections_str == Lower(Strip(resp.content))
        pieces == Split(collections_str, ",")
        collections == [i \in 1..Len(pieces) |-> Strip(pieces[i])]
        valid == SelectSeq(collections,
                           LAMBDA c : c \in {<<"plays">>, <<"sonnets">>, <<"poems">>})
    IN  [i \in 1..Len(valid) |-> Head(valid[i])]

DetermineNoFallback(available, resp) ==
    IF ~available THEN AllCollections
    ELSE IF resp.kind = "raise" THEN AllCollections
    ELSE IF HasContent(resp) THEN ValidCollections(resp)
    ELSE AllCollections

DetermineNarrowOnError(available, resp) ==
    IF ~available THEN AllCollections
    ELSE IF resp.kind = "raise" THEN <<"plays">>
    ELSE IF HasContent(resp) /\ ValidCollections(resp) # <<>>
         THEN ValidCollections(resp)
    ELSE AllCollections

DetermineRelevantCollections(available, resp) ==
    IF ~available THEN AllCollections
    ELSE IF resp.kind = "raise" THEN AllCollections
    ELSE IF HasContent(resp) /\ ValidCollections(resp) # <<>>
         THEN ValidCollections(resp)
    ELSE AllCollections

DetermineCallsRetried(available) ==
    IF available
    THEN <<[api |-> "classify", target |-> "llm"],
           [api |-> "classify", target |-> "llm"]>>
    ELSE <<>>

\* the backend calls determine_relevant_collections issues
DetermineCalls(available) ==
    IF available THEN <<[api |-> "classify", target |-> "llm"]>> ELSE <<>>

(***************************************************************************)
(* Corpus Store records.  A dict is a function from its keys; properties   *)
(* that are None are the dict NoneDict, on which .get raises.              *)
(***************************************************************************)
NoneDict == [none |-> TRUE]

IsNoneDict(d) == DOMAIN d = {"none"}

\* d.get(k, default)
Get(d, k, default) == IF k \in DOMAIN d THEN d[k] ELSE default

\* Python truthiness of an optional number
Truthy(x) == x # None /\ x # 0

CollectionName(key) ==
    CASE key = "plays" -> "ShakespearePlays"
      [] key = "sonnets" -> "ShakespeareSonnets"
      [] key = "poems" -> "ShakespearePoems"

CollectionNames == {CollectionName(k) : k \in PartitionKeys}

\* the passages of the one play of the modelled corpus, sequence_no 1..PlayLen
PlayLine(n) ==
    [content |-> <<"line", Str(n)>>, speaker |-> <<"HAMLET">>,
     chunk_type |-> "speech", sequence_no |-> n, play |-> <<"hamlet">>]

\* fetch_objects(filters = play == p and start <= sequence_no <= end, limit=20)
FetchObjects(play_name, start_sequence, end_sequence) ==
    LET hits == {n \in 1..PlayLen : /\ PlayLine(n).play = play_name
                                    /\ n >= start_sequence
                                    /\ n <= end_sequence}
        all == [n \in 1..PlayLen |-> PlayLine(n)]
    IN  Take(SelectSeq(all, LAMBDA c : c.sequence_no \in hits), FetchLimit)

(***************************************************************************)
(* ShakespeareSearchClient._add_play_context / _get_context_chunks         *)
(***************************************************************************)
\* list.sort(key=sequence_no): stable insertion sort
RECURSIVE InsertBySeq(_, _)
InsertBySeq(sorted, c) ==
    IF sorted = <<>> THEN <<c>>
    ELSE IF sorted[Len(sorted)].sequence_no <= c.sequence_no
         THEN Append(sorted, c)
    ELSE Append(InsertBySeq(SubSeq(sorted, 1, Len(sorted) - 1), c),
                sorted[Len(sorted)])

RECURSIVE SortBySeq(_)
SortBySeq(s) ==
    IF s = <<>> THEN <<>>
    ELSE InsertBySeq(SortBySeq(SubSeq(s, 1, Len(s) - 1)), s[Len(s)])

\* lines 175-194: one neighbour as stored in the context window
ContextChunk(chunk) ==
    [content |-> Get(chunk, "content", <<>>),
     speaker |-> Get(chunk, "speaker", <<>>),
     chunk_type |-> Get(chunk, "chunk_type", ""),
     sequence_no |-> chunk.sequence_no]

ContextChunks(chunks) == [i \in 1..Len(chunks) |-> ContextChunk(chunks[i])]

\* the match has what the expander needs (line 158 does not return early)
Expandable(result) ==
    /\ ~IsNoneDict(result.properties)
    /\ Get(result.properties, "sequence_no", None) # None
    /\ Get(result.properties, "play", <<>>) # <<>>

ContextStartUnclamped(sequence_no) == sequence_no - ContextRadius

ContextStart(sequence_no) ==
    IF sequence_no - ContextRadius > 1 THEN sequence_no - ContextRadius ELSE 1

ContextEnd(sequence_no) == sequence_no + ContextRadius

WithContextUnsorted(result, context_chunks) ==
    LET sequence_no == result.properties["sequence_no"]
        numbered == SelectSeq(context_chunks,
                              LAMBDA c : Get(c, "sequence_no", None) # None)
        before == SelectSeq(numbered, LAMBDA c : c.sequence_no < sequence_no)
        after == SelectSeq(numbered, LAMBDA c : c.sequence_no > sequence_no)
    IN  result @@ ("context" :>
            [preceding_chunks |-> ContextChunks(before),
             following_chunks |-> ContextChunks(after),
             current_sequence_no |-> sequence_no])

\* lines 168-198 for a fetch that returned context_chunks
WithContext(result, context_chunks) ==
    LET sequence_no == result.properties["sequence_no"]
        numbered == SelectSeq(context_chunks,
                              LAMBDA c : Get(c, "sequence_no", None) # None)
        before == SelectSeq(numbered, LAMBDA c : c.sequence_no < sequence_no)
        after == SelectSeq(numbered, LAMBDA c : c.sequence_no > sequence_no)
    IN  result @@ ("context" :>
            [preceding_chunks |-> SortBySeq(ContextChunks(before)),
             following_chunks |-> SortBySeq(ContextChunks(after)),
             current_sequence_no |-> sequence_no])

\* what _get_context_chunks did: raised, or returned chunks
FetchRaised == [raised |-> TRUE, chunks |-> <<>>]

Fetched(chunks) == [raised |-> FALSE, chunks |-> chunks]

AddPlayContextWindowFirst(result, fetch) ==
    IF ~Expandable(result) THEN result
    ELSE WithContext(result, fetch.chunks)

AddPlayContext(result, fetch) ==
    IF ~Expandable(result) THEN result
    ELSE IF fetch.raised THEN result
    ELSE WithContext(result, fetch.chunks)

\* the range query _add_play_context issues for this match, if any
PlayContextCalls(result) ==
    IF Expandable(result)
    THEN <<[api |-> "fetch_objects", target |-> "ShakespearePlays",
            play |-> result.properties["play"],
            start_sequence |-> ContextStart(result.properties["sequence_no"]),
            end_sequence |-> ContextEnd(result.properties["sequence_no"]),
            limit |-> FetchLimit]>>
    ELSE <<>>

(***************************************************************************)
(* ShakespeareSearchClient.search_collection                               *)
(*                                                                         *)
(* store is what the Corpus Store does during the call:                    *)
(*   handle   collections.get returns (FALSE: it raises, or client is None)*)
(*   hybrid   "ok", "raise", or "bad" (a response whose objects cannot be  *)
(*            iterated)                                                    *)
(*   near     "ok" or "raise"                                              *)
(*   objs     the objects of the query that answers                        *)
(*   failing  indices of objs whose neighbour fetch raises                 *)
(* An object is [meta, score, distance, properties]: meta tells whether    *)
(* obj.metadata is present.                                                *)
(***************************************************************************)
\* lines 97-108
HybridResult(obj) ==
    LET score == IF obj.meta /\ Truthy(obj.score) THEN obj.score ELSE None
        distance == IF obj.meta /\ Truthy(obj.distance) THEN obj.distance ELSE None
    IN  [properties |-> obj.properties,
         score |-> IF distance # None /\ score = None
                   THEN (IF distance < One THEN One - distance ELSE 0)
                   ELSE score,
         distance |-> distance]

\* line 130
NearDistance(obj) == IF obj.meta THEN obj.distance ELSE One

\* lines 130-137; line 131 raises TypeError on a None distance
NearResult(obj) ==
    LET distance == NearDistance(obj)
    IN  [properties |-> obj.properties,
         score |-> IF distance < One THEN One - distance ELSE 0,
         distance |-> distance]

\* what the neighbour fetch of the i-th object does
FetchOf(store, i, result) ==
    IF i \in store.failing THEN FetchRaised
    ELSE Fetched(FetchObjects(Get(result.properties, "play", <<>>),
                     ContextStart(Get(result.properties, "sequence_no", 0)),
                     ContextEnd(Get(result.properties, "sequence_no", 0))))

NotExpanded(collection_name, store, i, result) == result

\* lines 110-114 and 139-143
Expanded(collection_name, store, i, result) ==
    IF collection_name = "ShakespearePlays"
    THEN AddPlayContext(result, FetchOf(store, i, result))
    ELSE result

ExpandCalls(collection_name, results) ==
    IF collection_name = "ShakespearePlays"
    THEN [i \in 1..Len(results) |-> PlayContextCalls(results[i])]
    ELSE [i \in 1..Len(results) |-> <<>>]

RECURSIVE Concat(_)
Concat(ss) == IF ss = <<>> THEN <<>> ELSE Head(ss) \o Concat(Tail(ss))

Call(api, target) == <<[api |-> api, target |-> target]>>

\* lines 121-145: the inner try; failed tells whether it raised.  With no
\* collection handle the name collection is unbound and no query is issued.
NearTextAttempt(collection_name, store) ==
    IF ~store.handle
    THEN [failed |-> TRUE, results |-> <<>>, calls |-> <<>>]
    ELSE IF store.near = "raise"
    THEN [failed |-> TRUE, results |-> <<>>,
          calls |-> Call("near_text", collection_name)]
    ELSE LET n == Len(store.objs)
             bad == {i \in 1..n : NearDistance(store.objs[i]) = None}
             upto == IF bad = {} THEN n
                     ELSE (CHOOSE i \in bad : \A j \in bad : i <= j) - 1
             raw == [i \in 1..upto |-> NearResult(store.objs[i])]
         IN  [failed |-> bad # {},
              results |-> [i \in 1..upto |->
                              Expanded(collection_name, store, i, raw[i])],
              calls |-> Call("near_text", collection_name)
                        \o Concat(ExpandCalls(collection_name, raw))]

\* lines 84-116: the outer try; failed tells whether control reaches except
HybridAttempt(collection_name, store) ==
    IF ~store.handle
    THEN [failed |-> TRUE, results |-> <<>>,
          calls |-> Call("collections.get", collection_name)]
    ELSE IF store.hybrid # "ok"
    THEN [failed |-> TRUE, results |-> <<>>,
          calls |-> Call("collections.get", collection_name)
                    \o Call("hybrid", collection_name)]
    ELSE LET n == Len(store.objs)
             raw == [i \in 1..n |-> HybridResult(store.objs[i])]
         IN  [failed |-> FALSE,
              results |-> [i \in 1..n |->
                              Expanded(collection_name, store, i, raw[i])],
              calls |-> Call("collections.get", collection_name)
                        \o Call("hybrid", collection_name)
                        \o Concat(ExpandCalls(collection_name, raw))]

SearchCollectionNoInnerCatch(collection_name, store) ==
    LET try == HybridAttempt(collection_name, store)
        except == NearTextAttempt(collection_name, store)
    IN  IF ~try.failed
        THEN [results |-> try.results, calls |-> try.calls, raised |-> FALSE]
        ELSE [results |-> except.results,
              calls |-> try.calls \o except.calls, raised |-> except.failed]

SearchCollection(collection_name, store) ==
    LET try == HybridAttempt(collection_name, store)
        except == NearTextAttempt(collection_name, store)
    IN  IF ~try.failed
        THEN [results |-> try.results, calls |-> try.calls, raised |-> FALSE]
        ELSE IF ~except.failed
        THEN [results |-> except.results,
              calls |-> try.calls \o except.calls, raised |-> FALSE]
        ELSE [results |-> <<>>,
              calls |-> try.calls \o except.calls, raised |-> FALSE]

(***************************************************************************)
(* ShakespeareSemanticProcessor.  A result set (search_results) is a       *)
(* sequence of [key, results] with distinct keys: the dict in insertion    *)
(* order.  A result is a dict with properties, score, distance and,        *)
(* after expansion, context.                                               *)
(***************************************************************************)
RECURSIVE Sum(_)
Sum(s) == IF s = <<>> THEN 0 ELSE Head(s) + Sum(Tail(s))

RECURSIVE Max(_)
Max(s) ==
    IF Len(s) = 1 THEN Head(s)
    ELSE IF Head(s) >= Max(Tail(s)) THEN Head(s) ELSE Max(Tail(s))

\* sep.join(parts)
RECURSIVE Join(_, _)
Join(parts, sep) ==
    IF parts = <<>> THEN <<>>
    ELSE IF Len(parts) = 1 THEN Head(parts)
    ELSE Head(parts) \o <<sep>> \o Join(Tail(parts), sep)

\* every result of the result set, partition after partition
AllResults(sr) ==
    Concat([i \in 1..Len(sr) |-> sr[i].results])

\* result.get("score", 0) of every result
AllScores(sr) ==
    LET all == AllResults(sr)
    IN  [i \in 1..Len(all) |-> Get(all[i], "score", 0)]

HasNoneScore(sr) ==
    \E i \in 1..Len(AllScores(sr)) : AllScores(sr)[i] = None

QualityInclusive(max_score) ==
    IF max_score >= 50 THEN "excellent"
    ELSE IF max_score >= 30 THEN "good"
    ELSE IF max_score >= RelevanceThreshold THEN "fair"
    ELSE "poor"

\* lines 303-310
Quality(max_score) ==
    IF max_score > 50 THEN "excellent"
    ELSE IF max_score > 30 THEN "good"
    ELSE IF max_score > RelevanceThreshold THEN "fair"
    ELSE "poor"

\* analyze_search_quality; avg_score is the fraction num/den.  sum() raises
\* TypeError when a score is None.
CollectionsSearchedNone(sr) == 0

\* len(search_results)
CollectionsSearched(sr) == Len(sr)

AnalyzeSearchQuality(sr) ==
    LET all_scores == AllScores(sr)
    IN  IF all_scores = <<>>
        THEN [raised |-> FALSE, total_results |-> 0,
              avg_score |-> [num |-> 0, den |-> 1], max_score |-> 0,
              collections_searched |-> CollectionsSearched(sr),
              quality |-> "poor"]
        ELSE IF HasNoneScore(sr)
        THEN [raised |-> TRUE, total_results |-> 0,
              avg_score |-> [num |-> 0, den |-> 1], max_score |-> 0,
              collections_searched |-> 0, quality |-> "poor"]
        ELSE [raised |-> FALSE, total_results |-> Len(all_scores),
              avg_score |-> [num |-> Sum(all_scores), den |-> Len(all_scores)],
              max_score |-> Max(all_scores),
              collections_searched |-> CollectionsSearched(sr),
              quality |-> Quality(Max(all_scores))]

GoodResultsInclusive(results) ==
    SelectSeq(results, LAMBDA r : Get(r, "score", 0) >= RelevanceThreshold)

\* lines 164-169: the results of one partition that pass the threshold
GoodResults(results) ==
    SelectSeq(results, LAMBDA r : Get(r, "score", 0) > RelevanceThreshold)

FilteredNoFallback(sr) ==
    LET good == [i \in 1..Len(sr) |->
                    [key |-> sr[i].key, results |-> GoodResults(sr[i].results)]]
    IN  SelectSeq(good, LAMBDA e : e.results # <<>>)

\* lines 159-177: filtered_results
FilteredResults(sr) ==
    LET good == [i \in 1..Len(sr) |->
                    [key |-> sr[i].key,
                     results |-> GoodResults(sr[i].results)]]
        kept == SelectSeq(good, LAMBDA e : e.results # <<>>)
        raw == [i \in 1..Len(sr) |->
                   [key |-> sr[i].key,
                    results |-> Take(sr[i].results, 2)]]
    IN  IF kept # <<>> THEN kept
        ELSE SelectSeq(raw, LAMBDA e : e.results # <<>>)

\* one side of the context window, lines 235-255
ContextLines(chunks) ==
    LET stripped == [i \in 1..Len(chunks) |->
                        [content |-> Strip(Get(chunks[i], "content", <<>>)),
                         speaker |-> Get(chunks[i], "speaker", <<>>)]]
        shown == SelectSeq(stripped, LAMBDA c : c.content # <<>>)
    IN  [i \in 1..Len(shown) |->
            IF shown[i].speaker # <<>>
            THEN shown[i].speaker \o <<": ">> \o shown[i].content
            ELSE shown[i].content]

\* _build_enhanced_content(main_content, result.get("context", {}))
BuildEnhancedContent(main_content, result) ==
    IF "context" \notin DOMAIN result THEN main_content
    ELSE LET preceding_context == ContextLines(result.context.preceding_chunks)
             following_context == ContextLines(result.context.following_chunks)
             before == IF preceding_context # <<>>
                       THEN <<<<"[Previous context: ">>
                              \o Join(preceding_context, " | ") \o <<"]">>>>
                       ELSE <<>>
             after == IF following_context # <<>>
                      THEN <<<<"[Following context: ">>
                             \o Join(following_context, " | ") \o <<"]">>>>
                      ELSE <<>>
         IN  Join(before \o <<main_content>> \o after, " ")

\* lines 192-201, 208-209, 213-217
Citation(collection_type, props) ==
    CASE collection_type = "plays" ->
             Get(props, "title", <<"Unknown Play">>)
             \o (IF Truthy(Get(props, "act", None)) /\ Truthy(Get(props, "scene", None))
                 THEN <<" (Act ", Str(props["act"]), ", Scene ",
                        Str(props["scene"]), ")">>
                 ELSE <<>>)
             \o (IF Get(props, "speaker", <<>>) # <<>>
                 THEN <<" - ">> \o props["speaker"]
                 ELSE <<>>)
      [] collection_type = "sonnets" ->
             IF Truthy(Get(props, "sonnet_number", None))
             THEN <<"Sonnet ", Str(props["sonnet_number"])>>
             ELSE <<"a sonnet">>
      [] collection_type = "poems" ->
             Get(props, "title", <<"Unknown Poem">>)
             \o (IF Truthy(Get(props, "stanza_number", None))
                 THEN <<" (Stanza ", Str(props["stanza_number"]), ")">>
                 ELSE <<>>)

\* lines 186, 189: the stripped content of a result
Content(result) == Strip(Get(result.properties, "content", <<>>))

\* lines 204-205, 210, 218
Context(collection_type, result) ==
    <<"From ">> \o Citation(collection_type, result.properties) \o <<": ">>
    \o (IF collection_type = "plays"
        THEN BuildEnhancedContent(Content(result), result)
        ELSE Content(result))

VisitedUncapped(sr) ==
    LET filtered_results == FilteredResults(sr)
    IN  Concat([i \in 1..Len(filtered_results) |->
                   [j \in 1..Len(filtered_results[i].results) |->
                       [key |-> filtered_results[i].key,
                        result |-> filtered_results[i].results[j]]]])

\* lines 183-184: the results the output loop visits, with their partition
Visited(sr) ==
    LET filtered_results == FilteredResults(sr)
    IN  Concat([i \in 1..Len(filtered_results) |->
                   [j \in 1..Len(Take(filtered_results[i].results, 3)) |->
                       [key |-> filtered_results[i].key,
                        result |-> filtered_results[i].results[j]]]])

BuildContextCitesBlank(sr) ==
    LET visited == Visited(sr)
        used == SelectSeq(visited, LAMBDA v : Content(v.result) # <<>>)
    IN  [raised |-> HasNoneScore(sr),
         context_parts |->
             [i \in 1..Len(used) |-> Context(used[i].key, used[i].result)],
         citation_parts |->
             [i \in 1..Len(visited) |->
                 Citation(visited[i].key, visited[i].result.properties)]]

\* build_context_from_results; raises on a None score (line 167) and on
\* properties that are None (line 186)
BuildContextFromResults(sr) ==
    LET visited == Visited(sr)
        used == SelectSeq(visited, LAMBDA v : Content(v.result) # <<>>)
    IN  IF sr = <<>>
        THEN [raised |-> FALSE, context_parts |-> <<>>, citation_parts |-> <<>>]
        ELSE IF \/ HasNoneScore(sr)
                \/ \E i \in 1..Len(visited) : IsNoneDict(visited[i].result.properties)
        THEN [raised |-> TRUE, context_parts |-> <<>>, citation_parts |-> <<>>]
        ELSE [raised |-> FALSE,
              context_parts |->
                  [i \in 1..Len(used) |-> Context(used[i].key, used[i].result)],
              citation_parts |->
                  [i \in 1..Len(used) |->
                      Citation(used[i].key, used[i].result.properties)]]

(***************************************************************************)
(* ShakespeareAIClient._create_fallback_response and generate_response     *)
(***************************************************************************)
\* word in token: the substring test on one token of the query
Includes(token, word) ==
    \/ token = word
    \/ <<token, word>> \in {<<"says", "say">>, <<"sonnets", "sonnet">>}

\* word in query_lower
Contains(query_lower, word) ==
    \E i \in 1..Len(query_lower) : Includes(query_lower[i], word)

OpeningSayAlone(query) ==
    LET query_lower == Lower(query)
    IN  IF Contains(query_lower, "who is") \/ Contains(query_lower, "who was")
        THEN <<"Based on the passages I found, here's what Shakespeare's works tell us:">>
        ELSE IF Contains(query_lower, "say") \/ Contains(query_lower, "says")
        THEN <<"Here are the relevant passages where characters speak about this topic:">>
        ELSE IF Contains(query_lower, "sonnet")
        THEN <<"I found these relevant sonnets:">>
        ELSE <<"Here are the most relevant passages from Shakespeare's works:">>

\* lines 200-207
Opening(query) ==
    LET query_lower == Lower(query)
    IN  IF Contains(query_lower, "who is") \/ Contains(query_lower, "who was")
        THEN <<"Based on the passages I found, here's what Shakespeare's works tell us:">>
        ELSE IF /\ Contains(query_lower, "what")
                /\ (Contains(query_lower, "say") \/ Contains(query_lower, "says"))
        THEN <<"Here are the relevant passages where characters speak about this topic:">>
        ELSE IF Contains(query_lower, "sonnet")
        THEN <<"I found these relevant sonnets:">>
        ELSE <<"Here are the most relevant passages from Shakespeare's works:">>

\* lines 214-217: context.split(": ", 1)[1] when ": " occurs
ContentPart(context) ==
    LET i == Find(context, ": ", 1)
    IN  IF i = 0 THEN context ELSE SubSeq(context, i + 1, Len(context))

\* lines 219-221: the three lines of entry i
Entry(i, context, citation) ==
    << <<"**", Str(i), ". ">> \o citation \o <<":**">>, ContentPart(context), <<>> >>

\* lines 224-227
Closing(n) ==
    IF n > 1
    THEN <<"These passages show different perspectives on your query from Shakespeare's works.">>
    ELSE <<"This passage addresses your query from Shakespeare's works.">>

CreateFallbackResponseUncapped(query, ctx, cits) ==
    LET n == Min(Len(ctx), Len(cits))
        entries == Concat([i \in 1..n |-> Entry(i, ctx[i], cits[i])])
    IN  Join(<<Opening(query), <<>>>> \o entries \o <<Closing(Len(ctx))>>, "\n")

\* _create_fallback_response: the lines joined by "\n"
CreateFallbackResponse(query, ctx, cits) ==
    LET n == Min(Len(Take(ctx, MaxContexts)), Len(Take(cits, MaxContexts)))
        entries == Concat([i \in 1..n |-> Entry(i, ctx[i], cits[i])])
    IN  Join(<<Opening(query), <<>>>> \o entries \o <<Closing(Len(ctx))>>, "\n")

\* number of characters of a token of a generated text
TokenLen(t) ==
    CASE t = " " -> 1
      [] t = "To be, or," -> 10
      [] t = "!" -> 1
      [] OTHER -> 5

\* len(str)
RECURSIVE StrLen(_)
StrLen(s) == IF s = <<>> THEN 0 ELSE TokenLen(Head(s)) + StrLen(Tail(s))

MessagesWholeHistory(query, ctx, history) ==
    <<[role |-> "system", content |-> <<"system_prompt">>]>>
    \o history
    \o <<[role |-> "user",
          content |-> <<"Question: ">> \o query \o <<"passages: ">>
                      \o Join(Take(ctx, MaxContexts), "\n\n")
                      \o <<"Please provide">>]>>

\* lines 135 and 156-174: the messages sent to the Generation Service
Messages(query, ctx, history) ==
    <<[role |-> "system", content |-> <<"system_prompt">>]>>
    \o Last(history, HistoryWindow)
    \o <<[role |-> "user",
          content |-> <<"Question: ">> \o query \o <<"passages: ">>
                      \o Join(Take(ctx, MaxContexts), "\n\n")
                      \o <<"Please provide">>]>>

GenerateListsAliased(query, ctx, history) ==
    [messages |-> Messages(query, ctx, history),
     conversation_history |-> Append(history, Last(Messages(query, ctx, history), 1)[1])]

\* lines 165-174: the two list objects once messages is built; messages is
\* a new list and conversation_history[-6:] a copy
GenerateLists(query, ctx, history) ==
    [messages |-> Messages(query, ctx, history),
     conversation_history |-> history]

\* generate_response; gen is what chat.completions.create does on the
\* generation call: [kind |-> "raise" | "no_choices" | "no_content" | "text"].
\* messages is what was sent (nothing without a client) and
\* conversation_history the caller's list after the call.
GenerateResponse(query, ctx, cits, history, available, gen) ==
    IF ~available
    THEN [text |-> CreateFallbackResponse(query, ctx, cits), calls |-> <<>>,
          messages |-> <<>>, conversation_history |-> history]
    ELSE [text |-> IF /\ gen.kind = "text"
                      /\ gen.content # <<>>
                      /\ StrLen(Strip(gen.content)) > MinGenerated
                   THEN Strip(gen.content)
                   ELSE CreateFallbackResponse(query, ctx, cits),
          calls |-> Call("generate", "llm"),
          messages |-> GenerateLists(query, ctx, history).messages,
          conversation_history |->
              GenerateLists(query, ctx, history).conversation_history]

(***************************************************************************)
(* ShakespeareSearchClient.search_relevant_collections and                 *)
(* search_all_collections: one iteration of the loop.                      *)
(***************************************************************************)
RECURSIVE KeyIndex(_, _, _)
KeyIndex(sr, key, i) ==
    IF i > Len(sr) THEN 0 ELSE IF sr[i].key = key THEN i ELSE KeyIndex(sr, key, i + 1)

\* all_results[collection_type] = results, on an insertion-ordered dict
DictSet(sr, key, results) ==
    IF KeyIndex(sr, key, 1) = 0
    THEN Append(sr, [key |-> key, results |-> results])
    ELSE [sr EXCEPT ![KeyIndex(sr, key, 1)].results = results]

CollectedEvenEmpty(sr, key, results) == DictSet(sr, key, results)

\* lines 236-238 and 247-249: if results: all_results[key] = results
Collected(sr, key, results) ==
    IF results # <<>> THEN DictSet(sr, key, results) ELSE sr

(***************************************************************************)
(* ShakespeareCoreProcessor.process_query and process_query_all_collections*)
(***************************************************************************)
\* the first token stands for the cross-mark character U+274C
NotInitialized ==
    <<"cross-mark", " Shakespeare RAG system not initialized. Please check connections.">>

Insufficient(op) ==
    IF op = "process_query"
    THEN <<"I couldn't find sufficiently relevant passages to answer your question.",
           " Try rephrasing or asking about a more specific topic.">>
    ELSE <<"I couldn't find sufficiently relevant passages to answer your question.">>

ErrorPrefix == "An error occurred while processing your query: "

\* no call has returned yet
NoResponse == [kind |-> "none", text |-> <<>>]

\* an exception leaves the orchestrator
Propagated(e) == [kind |-> "exception", text |-> <<e>>]

\* lines 128-130 and 168-170: except Exception as e
Caught(e) == [kind |-> "text", text |-> <<ErrorPrefix, e>>]

Returned(text) == [kind |-> "text", text |-> text]

SearchNothingWithoutSelection(op, use_smart_selection, available, resp) ==
    IF op = "process_query" /\ use_smart_selection /\ available
    THEN DetermineRelevantCollections(available, resp)
    ELSE <<>>

\* lines 91-98 and 141: the partitions the search loop visits, in order
CollectionsToSearch(op, use_smart_selection, available, resp) ==
    IF op = "process_query" /\ use_smart_selection /\ available
    THEN DetermineRelevantCollections(available, resp)
    ELSE AllCollections

\* lines 115 and 157: the condition of the generation call
UsesGeneration(op, available, max_score) ==
    IF op = "process_query"
    THEN available /\ max_score > RelevanceThreshold
    ELSE available

AnswerWithoutShortCircuit(op, query, history, available, max_score, ctx, cits, gen) ==
    IF UsesGeneration(op, available, max_score)
    THEN GenerateResponse(query, ctx, cits, history, available, gen)
    ELSE [text |-> CreateFallbackResponse(query, ctx, cits), calls |-> <<>>,
          messages |-> <<>>, conversation_history |-> history]

\* lines 111-126 and 153-166: the answer once the context is built
Answer(op, query, history, available, max_score, ctx, cits, gen) ==
    IF ctx = <<>>
    THEN [text |-> Insufficient(op), calls |-> <<>>,
          messages |-> <<>>, conversation_history |-> history]
    ELSE IF UsesGeneration(op, available, max_score)
    THEN GenerateResponse(query, ctx, cits, history, available, gen)
    ELSE [text |-> CreateFallbackResponse(query, ctx, cits), calls |-> <<>>,
          messages |-> <<>>, conversation_history |-> history]

(***************************************************************************)
(* The classifier alone: every client state and every backend response.    *)
(***************************************************************************)
Idle ==
    /\ connected = FALSE
    /\ relevant_collections = <<>>
    /\ pending = <<>>
    /\ search_results = <<>>
    /\ quality_analysis = [max_score |-> 0]
    /\ context_parts = <<>>
    /\ citation_parts = <<>>
    /\ response = NoResponse
    /\ calls = <<>>
    /\ raised = FALSE

InitClassify ==
    /\ Idle
    /\ client \in BOOLEAN
    /\ req = [op |-> "determine_relevant_collections"]
    /\ backend \in ClassifyResponses
    /\ pc = "call"
    /\ ret = <<>>

Classify ==
    /\ pc = "call"
    /\ ret' = DetermineRelevantCollections(client, backend)
    /\ calls' = DetermineCalls(client)
    /\ pc' = "returned"
    /\ UNCHANGED <<connected, client, req, pipelineLocals, response, raised, backend>>

NextClassify == Classify

SpecClassify == InitClassify /\ [][NextClassify]_vars

\* C2: determine_relevant_collections returns a non-empty list of known
\* partition keys, whatever the classification backend does.
C2_ClassifyNonEmptyKnown ==
    pc = "returned" =>
        /\ ret # <<>>
        /\ \A i \in 1..Len(ret) : ret[i] \in PartitionKeys

\* C2 witness: a partly recognised response was parsed to a proper subset
C2_Witness ==
    /\ pc = "returned"
    /\ client
    /\ backend.kind = "text"
    /\ \E i \in 1..Len(backend.content) : backend.content[i] = "hamlet"
    /\ ret = <<"sonnets">>

\* the response contains no valid token after lower/strip/split/strip
NoValidToken(resp) == ValidCollections(resp) = <<>>

\* C3: client unavailable, call raised, no content, or no valid token:
\* the result is exactly ["plays", "sonnets", "poems"].
C3_FallbackToAll ==
    (pc = "returned" /\ (\/ ~client
                         \/ backend.kind = "raise"
                         \/ ~HasContent(backend)
                         \/ NoValidToken(backend)))
        => ret = <<"plays", "sonnets", "poems">>

\* C3 witness: an available client got text without any known key
C3_Witness ==
    /\ pc = "returned"
    /\ client
    /\ HasContent(backend)
    /\ NoValidToken(backend)
    /\ ret = AllCollections

(***************************************************************************)
(* search_collection alone: every partition and every store behaviour.     *)
(***************************************************************************)
\* obj.metadata of a returned object: absent, or score and distance each
\* absent, zero or positive; distances below, at and above 1.0
Metadata ==
    {[meta |-> FALSE, score |-> None, distance |-> None]}
    \cup {[meta |-> TRUE, score |-> s, distance |-> d] :
             s \in {None, 0, 30}, d \in {None, 0, 40, 100, 150}}

\* obj.properties of a passage of each partition
SampleProperties(collection_name) ==
    CASE collection_name = "ShakespearePlays" ->
             [content |-> <<"to be">>, title |-> <<"Hamlet">>, act |-> 3,
              scene |-> 1, speaker |-> <<"HAMLET">>, sequence_no |-> 2,
              play |-> <<"hamlet">>]
      [] collection_name = "ShakespeareSonnets" ->
             [content |-> <<"shall I compare thee">>, sonnet_number |-> 8]
      [] collection_name = "ShakespearePoems" ->
             [content |-> <<"even as the sun">>, title |-> <<"Venus and Adonis">>,
              stanza_number |-> 1]

Objects(collection_name) ==
    {[meta |-> m.meta, score |-> m.score, distance |-> m.distance,
      properties |-> SampleProperties(collection_name)] : m \in Metadata}

\* neighbour fetches happen for the plays partition only
Failing(collection_name, objs) ==
    IF collection_name = "ShakespearePlays"
    THEN SUBSET (1..Len(objs))
    ELSE {{}}

\* how the queries of one search_collection call end; kinds are the ways
\* the hybrid query can fail
Modes(kinds) ==
    {[handle |-> FALSE, hybrid |-> "raise", near |-> "raise"],
     [handle |-> TRUE, hybrid |-> "ok", near |-> "raise"]}
    \cup {[handle |-> TRUE, hybrid |-> h, near |-> n] :
             h \in kinds, n \in {"ok", "raise"}}

\* some query answers with objects
Answers(mode) == mode.handle /\ (mode.hybrid = "ok" \/ mode.near = "ok")

Store(mode, objs, failing) ==
    [handle |-> mode.handle, hybrid |-> mode.hybrid, near |-> mode.near,
     objs |-> objs, failing |-> failing]

InitSearch ==
    /\ Idle
    /\ client = FALSE
    /\ \E c \in CollectionNames, mode \in Modes({"raise", "bad"}) :
       \E k \in 0..(IF Answers(mode) THEN MaxObjs ELSE 0) :
       \E objs \in [1..k -> Objects(c)] :
       \E failing \in Failing(c, objs) :
           /\ req = [op |-> "search_collection", collection_name |-> c]
           /\ backend = Store(mode, objs, failing)
    /\ pc = "call"
    /\ ret = [results |-> <<>>, calls |-> <<>>, raised |-> FALSE]

Search ==
    /\ pc = "call"
    /\ ret' = SearchCollection(req.collection_name, backend)
    /\ pc' = "returned"
    /\ UNCHANGED <<connected, client, req, pipelineLocals, response, calls,
                   raised, backend>>

NextSearch == Search

SpecSearch == InitSearch /\ [][NextSearch]_vars

NearTextCalls(cs) == Len(SelectSeq(cs, LAMBDA c : c.api = "near_text"))

HybridCalls(cs) == Len(SelectSeq(cs, LAMBDA c : c.api = "hybrid"))

\* the except branch was entered with a collection handle
HybridFailed == backend.handle /\ backend.hybrid # "ok"

\* the near_text query answered and every distance could be compared
NearTextSucceeded ==
    /\ backend.near = "ok"
    /\ \A i \in 1..Len(backend.objs) : NearDistance(backend.objs[i]) # None

\* the score rule of the fallback path: 1 - distance, clamped at 0 or not
NearScoreRule(r, clamped) ==
    r.score = IF clamped /\ r.distance >= One THEN 0 ELSE One - r.distance

\* the shape of C9 with the score rule left open
SearchFallsBack(clamped) ==
    pc = "returned" =>
        /\ ret.raised = FALSE
        /\ HybridCalls(ret.calls) <= 1
        /\ ~backend.handle =>
               ret.results = <<>> /\ NearTextCalls(ret.calls) = 0
        /\ (backend.handle /\ backend.hybrid = "ok") =>
               NearTextCalls(ret.calls) = 0
        /\ HybridFailed => NearTextCalls(ret.calls) = 1
        /\ (HybridFailed /\ NearTextSucceeded) =>
               /\ Len(ret.results) = Len(backend.objs)
               /\ \A i \in 1..Len(ret.results) :
                      /\ ret.results[i].properties = backend.objs[i].properties
                      /\ NearScoreRule(ret.results[i], clamped)
        /\ (HybridFailed /\ ~NearTextSucceeded) => ret.results = <<>>

\* C9 as stated: search_collection never raises; a failed hybrid query is
\* followed by exactly one near_text query whose results are returned with
\* score = 1 - distance; if that fails too the result is the empty list.
C9_Original == SearchFallsBack(FALSE)

\* C9 amended: the same, with score = 1 - distance when distance < 1 and
\* score = 0 when distance >= 1 (or the metadata is absent).
C9_SearchFallsBack == SearchFallsBack(TRUE)

\* C9 witness: the hybrid query failed and near_text returned a far match
C9_Witness ==
    /\ pc = "returned"
    /\ HybridFailed
    /\ NearTextCalls(ret.calls) = 1
    /\ Len(ret.results) = 2
    /\ ret.results[1].distance = 150
    /\ ret.results[1].score = 0
    /\ ret.results[2].score = 60

\* C10 as stated: every Match search_collection returns carries a numeric
\* score between 0 and 1, on the hybrid path and on the fallback path.
C10_ScoreInUnitInterval ==
    pc = "returned" =>
        \A i \in 1..Len(ret.results) :
            /\ ret.results[i].score # None
            /\ ret.results[i].score >= 0
            /\ ret.results[i].score <= One

\* the query whose objects search_collection turned into its results
HybridAnswered == backend.handle /\ backend.hybrid = "ok"

QueryAnswered == HybridAnswered \/ (HybridFailed /\ NearTextSucceeded)

HasWindow(result) == "context" \in DOMAIN result

\* C11: when the neighbour fetch of one plays match fails, that match is
\* returned without a context window, the other matches are still
\* expanded, every match of the same query path is returned, and there is
\* no switch to the near_text query.
C11_FetchFailureDegrades ==
    (/\ pc = "returned"
     /\ req.collection_name = "ShakespearePlays"
     /\ QueryAnswered)
        => /\ Len(ret.results) = Len(backend.objs)
           /\ \A i \in 1..Len(ret.results) :
                  /\ ret.results[i].properties = backend.objs[i].properties
                  /\ HasWindow(ret.results[i]) <=> i \notin backend.failing
           /\ HybridAnswered => NearTextCalls(ret.calls) = 0

\* C11 witness: the fetch of the first of two hybrid matches failed; both
\* matches came back, the second one with its window
C11_Witness ==
    /\ pc = "returned"
    /\ req.collection_name = "ShakespearePlays"
    /\ HybridAnswered
    /\ backend.failing = {1}
    /\ Len(ret.results) = 2
    /\ ~HasWindow(ret.results[1])
    /\ HasWindow(ret.results[2])
    /\ NearTextCalls(ret.calls) = 0

FetchCalls(cs) == Len(SelectSeq(cs, LAMBDA c : c.api = "fetch_objects"))

\* C13: every match returned for ShakespearePlays, on the hybrid path and
\* on the near_text path, went through _add_play_context (one range fetch
\* per match, a window on every match whose fetch answered); no match of
\* the sonnets or poems partitions has a window or causes a range fetch.
C13_ExpansionOnlyForPlays ==
    pc = "returned" =>
        IF req.collection_name = "ShakespearePlays"
        THEN QueryAnswered =>
                 /\ FetchCalls(ret.calls) = Len(ret.results)
                 /\ \A i \in 1..Len(ret.results) :
                        i \notin backend.failing => HasWindow(ret.results[i])
        ELSE /\ FetchCalls(ret.calls) = 0
             /\ \A i \in 1..Len(ret.results) : ~HasWindow(ret.results[i])

\* C13 witness: two plays matches returned by the near_text query, both
\* expanded
C13_Witness ==
    /\ pc = "returned"
    /\ req.collection_name = "ShakespearePlays"
    /\ HybridFailed
    /\ NearTextSucceeded
    /\ Len(ret.results) = 2
    /\ FetchCalls(ret.calls) = 2
    /\ HasWindow(ret.results[1])
    /\ HasWindow(ret.results[2])

\* C20: on the hybrid path a native score supplied by the backend (any
\* value, 0 included) is the score of the Match; without a native score
\* the score is 1 - distance when distance < 1 (so 1 at distance 0) and 0
\* otherwise.
C20_HybridScoreRule ==
    (pc = "returned" /\ HybridAnswered) =>
        \A i \in 1..Len(ret.results) :
            LET obj == backend.objs[i]
            IN  IF obj.meta /\ obj.score # None
                THEN ret.results[i].score = obj.score
                ELSE (obj.meta /\ obj.distance # None) =>
                         ret.results[i].score =
                             IF obj.distance < One THEN One - obj.distance ELSE 0

(***************************************************************************)
(* _add_play_context alone: every matched passage of the play and every    *)
(* response of the range fetch, in any order, of at most MaxChunks chunks. *)
(***************************************************************************)
\* a stored passage that carries no sequence_no
Unnumbered ==
    [content |-> <<"Enter Ghost">>, speaker |-> <<>>,
     chunk_type |-> "stage_direction", play |-> <<"hamlet">>]

PlayChunks == {PlayLine(n) : n \in 1..PlayLen} \cup {Unnumbered}

Numbered(chunks) ==
    SelectSeq(chunks, LAMBDA c : Get(c, "sequence_no", None) # None)

\* query_response.objects of fetch_objects: sequence numbers are unique
\* within a play (load_plays numbers the chunks of a play 1, 2, ...); the
\* store returns them in no particular order
FetchResponses(k) ==
    {chunks \in [1..k -> PlayChunks] :
        \A i, j \in 1..k :
            (i # j /\ chunks[i] = chunks[j]) => chunks[i] = Unnumbered}

InitExpand ==
    /\ Idle
    /\ client = FALSE
    /\ \E properties \in PlayChunks :
           req = [op |-> "_add_play_context",
                  result |-> [properties |-> properties, score |-> 35,
                              distance |-> 40]]
    /\ \/ backend = FetchRaised
       \/ \E k \in 0..MaxChunks : \E chunks \in FetchResponses(k) :
              backend = Fetched(chunks)
    /\ pc = "call"
    /\ ret = <<>>

Expand ==
    /\ pc = "call"
    /\ ret' = AddPlayContext(req.result, backend)
    /\ calls' = PlayContextCalls(req.result)
    /\ pc' = "returned"
    /\ UNCHANGED <<connected, client, req, pipelineLocals, response, raised,
                   backend>>

NextExpand == Expand

SpecExpand == InitExpand /\ [][NextExpand]_vars

\* the sequence numbers of a list of chunks, in list order
SequenceNos(chunks) == [i \in 1..Len(chunks) |-> chunks[i].sequence_no]

StrictlyAscending(ns) == \A i, j \in 1..Len(ns) : i < j => ns[i] < ns[j]

Elements(ns) == {ns[i] : i \in 1..Len(ns)}

\* C12: in an attached context window every preceding chunk has a smaller
\* sequence number than the match and every following chunk a larger one,
\* the match itself and chunks without a sequence number are in neither
\* list, no fetched neighbour is lost, and both lists are strictly
\* ascending.
C12_WindowSplitAndSorted ==
    (pc = "returned" /\ HasWindow(ret)) =>
        LET seq == req.result.properties.sequence_no
            fetched == Elements(SequenceNos(Numbered(backend.chunks)))
            preceding == SequenceNos(ret.context.preceding_chunks)
            following == SequenceNos(ret.context.following_chunks)
        IN  /\ Elements(preceding) = {n \in fetched : n < seq}
            /\ Elements(following) = {n \in fetched : n > seq}
            /\ StrictlyAscending(preceding)
            /\ StrictlyAscending(following)
            /\ Len(preceding) + Len(following) = Cardinality(fetched \ {seq})

\* C12 witness: the fetch returned the neighbours out of order, with the
\* match itself and an unnumbered chunk among them
C12_Witness ==
    /\ pc = "returned"
    /\ HasWindow(ret)
    /\ req.result.properties.sequence_no = 3
    /\ Len(backend.chunks) = 4
    /\ backend.chunks[1] = Unnumbered
    /\ SequenceNos(Numbered(backend.chunks)) = <<3, 2, 1>>
    /\ SequenceNos(ret.context.preceding_chunks) = <<1, 2>>
    /\ ret.context.following_chunks = <<>>

(***************************************************************************)
(* analyze_search_quality alone: every result set of at most MaxMatches    *)
(* matches in one or two partitions, with scores at and around the         *)
(* breakpoints, and the None score search_collection can produce.          *)
(***************************************************************************)
ScoreLevels == {None, 0, 10, 11, 30, 31, 35, 50, 51, 100}

ScoredMatch(key, score) ==
    [properties |-> SampleProperties(CollectionName(key)), score |-> score,
     distance |-> None]

\* the dict holding the first k scores under "sonnets" and the others
\* under "poems"; a key is only set for a non-empty list (lines 237-238)
ScoredResultSet(scores, k) ==
    LET n == Len(scores)
        sonnets == [i \in 1..k |-> ScoredMatch("sonnets", scores[i])]
        poems == [i \in 1..(n - k) |-> ScoredMatch("poems", scores[k + i])]
    IN  Collected(Collected(<<>>, "sonnets", sonnets), "poems", poems)

\* the same dict as a caller builds it who sets both keys, empty list or not
ListedResultSet(scores, k) ==
    LET n == Len(scores)
        sonnets == [i \in 1..k |-> ScoredMatch("sonnets", scores[i])]
        poems == [i \in 1..(n - k) |-> ScoredMatch("poems", scores[k + i])]
    IN  DictSet(DictSet(<<>>, "sonnets", sonnets), "poems", poems)

InitAnalyze ==
    /\ Idle
    /\ client = FALSE
    /\ req = [op |-> "analyze_search_quality"]
    /\ backend = [kind |-> "none"]
    /\ ret = <<>>
    /\ pc = "call"

\* the caller's result set, then the call
AnalyzeQuality ==
    /\ pc = "call"
    /\ \E n \in 0..MaxMatches : \E scores \in [1..n -> ScoreLevels] :
       \E k \in 0..n : \E listed \in BOOLEAN :
           LET sr == IF listed THEN ListedResultSet(scores, k)
                     ELSE ScoredResultSet(scores, k)
               analysis == AnalyzeSearchQuality(sr)
           IN  /\ search_results' = sr
               /\ quality_analysis' = analysis
               /\ raised' = analysis.raised
    /\ pc' = "returned"
    /\ UNCHANGED <<connected, client, req, relevant_collections, pending,
                   context_parts, citation_parts, response, calls, backend, ret>>

NextAnalyze == AnalyzeQuality

SpecAnalyze == InitAnalyze /\ [][NextAnalyze]_vars

\* the largest element of a non-empty set of numbers
Largest(S) == CHOOSE m \in S : \A n \in S : n <= m

TierRank(quality) ==
    CASE quality = "poor" -> 0
      [] quality = "fair" -> 1
      [] quality = "good" -> 2
      [] quality = "excellent" -> 3

\* C14: when the result set has scores, the tier depends on the maximum
\* score alone: it is the number of breakpoints 0.1, 0.3, 0.5 that the
\* maximum exceeds (poor, fair, good, excellent), hence non-decreasing in
\* the maximum.
C14_TierByMaxScore ==
    (pc = "returned" /\ ~raised /\ AllScores(search_results) # <<>>) =>
        LET max == Largest(Elements(AllScores(search_results)))
        IN  /\ quality_analysis.max_score = max
            /\ TierRank(quality_analysis.quality) =
                   Cardinality({b \in {10, 30, 50} : max > b})

\* C14 witness: the maximum over two partitions is 0.35, the tier is good
C14_Witness ==
    /\ pc = "returned"
    /\ ~raised
    /\ Len(search_results) = 2
    /\ AllScores(search_results) # <<>>
    /\ Largest(Elements(AllScores(search_results))) = 35
    /\ quality_analysis.quality = "good"

NoScores ==
    /\ pc = "returned"
    /\ AllScores(search_results) = <<>>

ZeroAndPoor ==
    /\ ~raised
    /\ quality_analysis.total_results = 0
    /\ quality_analysis.avg_score.num = 0
    /\ quality_analysis.max_score = 0
    /\ quality_analysis.quality = "poor"

\* C22 as stated: without any score every numeric field, the number of
\* collections searched included, is zero and the tier is poor.
C22_Original ==
    NoScores => (ZeroAndPoor /\ quality_analysis.collections_searched = 0)

\* C22: without any score the result count, the mean and the maximum are
\* zero and the tier is poor, while collections_searched is the number of
\* keys of the mapping (zero for the empty mapping only).
C22_NoScoresZeroButKeys ==
    NoScores =>
        /\ ZeroAndPoor
        /\ quality_analysis.collections_searched = Len(search_results)

\* C22 witness: two keys with empty lists were analysed
C22_Witness ==
    /\ NoScores
    /\ Len(search_results) = 2
    /\ quality_analysis.collections_searched = 2

(***************************************************************************)
(* _add_play_context on matches anywhere in a play of MaxSeq passages,     *)
(* and on matches that lack the play name or the sequence number.          *)
(***************************************************************************)
\* a passage stored without its play name
Unnamed(n) == [PlayLine(n) EXCEPT !["play"] = <<>>]

MatchedPassages ==
    {PlayLine(n) : n \in 1..MaxSeq} \cup {Unnamed(1), Unnumbered}

InitWindow ==
    /\ Idle
    /\ client = FALSE
    /\ \E properties \in MatchedPassages :
           req = [op |-> "_add_play_context",
                  result |-> [properties |-> properties, score |-> 35,
                              distance |-> 40]]
    /\ \/ backend = FetchRaised
       \/ \E k \in 0..MaxChunks : \E chunks \in FetchResponses(k) :
              backend = Fetched(chunks)
    /\ pc = "call"
    /\ ret = <<>>

SpecWindow == InitWindow /\ [][NextExpand]_vars

\* C21: a plays match with a sequence number seq and a play name causes
\* exactly one range fetch, on the same play, from max(1, seq - 5) (1 up to
\* seq = 6, seq - 5 beyond) to seq + 5, capped at 20 results; a match
\* lacking either causes none.
C21_RangeFetchBounds ==
    pc = "returned" =>
        IF /\ "sequence_no" \in DOMAIN req.result.properties
           /\ req.result.properties.play # <<>>
        THEN LET seq == req.result.properties.sequence_no
             IN  /\ Len(calls) = 1
                 /\ calls[1].api = "fetch_objects"
                 /\ calls[1].play = req.result.properties.play
                 /\ calls[1].start_sequence = IF seq <= 6 THEN 1 ELSE seq - 5
                 /\ calls[1].start_sequence >= 1
                 /\ calls[1].end_sequence = seq + 5
                 /\ calls[1].limit = 20
        ELSE calls = <<>>

\* C21 witness: the match at sequence number 7 was expanded with the
\* range 2..12
C21_Witness ==
    /\ pc = "returned"
    /\ Len(calls) = 1
    /\ req.result.properties.sequence_no = 7
    /\ calls[1].start_sequence = 2
    /\ calls[1].end_sequence = 12

(***************************************************************************)
(* build_context_from_results alone: every result set of at most           *)
(* MaxMatches matches over the three partitions, in every key order.       *)
(***************************************************************************)
\* score and content of the matches tried: above, at and below the
\* threshold, a None score; text, blank and empty content.  The score key
\* is always there: search_collection sets it (lines 104-108, 133-137).
MatchShapes ==
    {[score |-> 35, content |-> "text"], [score |-> 35, content |-> "blank"],
     [score |-> 10, content |-> "text"], [score |-> 5, content |-> "text"],
     [score |-> 5, content |-> "empty"], [score |-> None, content |-> "text"]}

ContentOf(collection_name, shape) ==
    CASE shape = "text" -> <<" ">> \o SampleProperties(collection_name).content
      [] shape = "blank" -> <<" ">>
      [] shape = "empty" -> <<>>

\* the result search_collection would have built for such a match
MatchOf(key, shape) ==
    LET name == CollectionName(key)
        props == [SampleProperties(name) EXCEPT
                     !["content"] = ContentOf(name, shape.content)]
        bare == [properties |-> props, score |-> shape.score]
    IN  IF key = "plays"
        THEN AddPlayContext(bare,
                 Fetched(FetchObjects(props["play"],
                                      ContextStart(props["sequence_no"]),
                                      ContextEnd(props["sequence_no"]))))
        ELSE bare

Matches(key) == {MatchOf(key, shape) : shape \in MatchShapes}

\* the orders in which a dict can hold some of the three keys
KeyOrders ==
    {ks \in SeqUpTo(PartitionKeys, 3) :
        \A i, j \in 1..Len(ks) : i # j => ks[i] # ks[j]}

InitAssemble ==
    /\ connected = FALSE
    /\ client = FALSE
    /\ req = [op |-> "build_context_from_results"]
    /\ relevant_collections = <<>>
    /\ pending = <<>>
    /\ quality_analysis = [max_score |-> 0]
    /\ context_parts = <<>>
    /\ citation_parts = <<>>
    /\ response = NoResponse
    /\ calls = <<>>
    /\ raised = FALSE
    /\ backend = [kind |-> "none"]
    /\ ret = <<>>
    /\ pc = "call"
    /\ \E ks \in KeyOrders :
       \E lens \in {l \in [1..3 -> 0..MaxMatches] :
                       /\ l[1] + l[2] + l[3] <= MaxMatches
                       /\ \A i \in 1..3 : i > Len(ks) => l[i] = 0} :
       \E r1 \in [1..lens[1] -> Matches(IF Len(ks) >= 1 THEN ks[1] ELSE "plays")] :
       \E r2 \in [1..lens[2] -> Matches(IF Len(ks) >= 2 THEN ks[2] ELSE "plays")] :
       \E r3 \in [1..lens[3] -> Matches(IF Len(ks) >= 3 THEN ks[3] ELSE "plays")] :
           search_results =
               [i \in 1..Len(ks) |-> [key |-> ks[i], results |-> <<r1, r2, r3>>[i]]]

BuildContext ==
    /\ pc = "call"
    /\ LET built == BuildContextFromResults(search_results)
       IN  /\ raised' = built.raised
           /\ context_parts' = built.context_parts
           /\ citation_parts' = built.citation_parts
    /\ pc' = "returned"
    /\ UNCHANGED <<connected, client, req, relevant_collections, pending,
                   search_results, quality_analysis, response, calls, backend, ret>>

NextAssemble == BuildContext

SpecAssemble == InitAssemble /\ [][NextAssemble]_vars

\* s begins with the tokens of prefix
StartsWith(s, prefix) ==
    Len(s) >= Len(prefix) /\ SubSeq(s, 1, Len(prefix)) = prefix

\* C7: whenever build_context_from_results returns, its two lists have the
\* same length and context i reads "From <citation i>: ...".
C7_ParallelLists ==
    (pc = "returned" /\ ~raised) =>
        /\ Len(context_parts) = Len(citation_parts)
        /\ \A i \in 1..Len(context_parts) :
               StartsWith(context_parts[i],
                          <<"From ">> \o citation_parts[i] \o <<": ">>)

\* C7 witness: two partitions contributed, one match without content was
\* skipped, and the lists are aligned
C7_Witness ==
    /\ pc = "returned"
    /\ ~raised
    /\ Len(search_results) = 2
    /\ Len(AllResults(search_results)) = 3
    /\ \E i \in 1..3 : Content(AllResults(search_results)[i]) = <<>>
    /\ Len(context_parts) = 2
    /\ Len(citation_parts) = 2
    /\ citation_parts[1] # citation_parts[2]

NoScoreAboveThreshold ==
    \A i \in 1..Len(AllScores(search_results)) :
        AllScores(search_results)[i] <= RelevanceThreshold

\* C8 as stated: a result set with at least one match and no score above
\* 0.1 yields at least one context passage and one citation.
C8_Original ==
    (/\ pc = "returned"
     /\ ~raised
     /\ AllResults(search_results) # <<>>
     /\ NoScoreAboveThreshold)
        => Len(context_parts) >= 1 /\ Len(citation_parts) >= 1

\* some partition has non-blank content among its first two matches
ContentInTopTwo ==
    \E i \in 1..Len(search_results) :
        \E j \in 1..Len(Take(search_results[i].results, 2)) :
            Content(search_results[i].results[j]) # <<>>

\* C8 amended: with no score above 0.1, and non-blank content in one of the
\* first two matches of some partition, at least one context passage and
\* one citation are returned.
C8_LowScoreFallback ==
    (/\ pc = "returned"
     /\ ~raised
     /\ NoScoreAboveThreshold
     /\ ContentInTopTwo)
        => Len(context_parts) >= 1 /\ Len(citation_parts) >= 1

\* C8 witness: two low-score matches of one partition, both used
C8_Witness ==
    /\ pc = "returned"
    /\ ~raised
    /\ Len(search_results) = 1
    /\ AllScores(search_results) = <<5, 10>>
    /\ Len(context_parts) = 2

(***************************************************************************)
(* build_context_from_results on ranked result sets: one or two verse      *)
(* partitions in either key order, at most MaxRanked matches in all, each  *)
(* match recognisable by its rank in its partition.                        *)
(***************************************************************************)
RankShapes == {[score |-> s, blank |-> b] : s \in {35, 10, 5}, b \in BOOLEAN}

\* the j-th match of partition key
RankedMatch(key, j, shape) ==
    [properties |->
         [SampleProperties(CollectionName(key)) EXCEPT
             !["content"] = IF shape.blank THEN <<" ">> ELSE <<"match ", Str(j)>>],
     score |-> shape.score, distance |-> None]

RankedKeyOrders ==
    {<<"sonnets">>, <<"poems">>, <<"sonnets", "poems">>, <<"poems", "sonnets">>}

InitRanked ==
    /\ connected = FALSE
    /\ client = FALSE
    /\ req = [op |-> "build_context_from_results"]
    /\ relevant_collections = <<>>
    /\ pending = <<>>
    /\ quality_analysis = [max_score |-> 0]
    /\ context_parts = <<>>
    /\ citation_parts = <<>>
    /\ response = NoResponse
    /\ calls = <<>>
    /\ raised = FALSE
    /\ backend = [kind |-> "none"]
    /\ ret = <<>>
    /\ pc = "call"
    /\ \E ks \in RankedKeyOrders :
       \E lens \in {l \in [1..Len(ks) -> 1..MaxRanked] :
                       Sum(l) <= MaxRanked} :
       \E shapes \in [1..Sum(lens) -> RankShapes] :
           search_results =
               [p \in 1..Len(ks) |->
                   [key |-> ks[p],
                    results |->
                        [j \in 1..lens[p] |->
                            RankedMatch(ks[p], j,
                                shapes[(IF p = 1 THEN 0 ELSE lens[1]) + j])]]]

SpecRanked == InitRanked /\ [][NextAssemble]_vars

\* the places <<p, j>> of the matches of the result set
Places ==
    {pj \in (1..Len(search_results)) \X (1..MaxRanked) :
        pj[2] <= Len(search_results[pj[1]].results)}

MatchAt(pj) == search_results[pj[1]].results[pj[2]]

\* the context passage a match with content would become
ContextAt(pj) == Context(search_results[pj[1]].key, MatchAt(pj))

AboveThreshold(pj) == MatchAt(pj).score > RelevanceThreshold

SomeAboveThreshold == \E pj \in Places : AboveThreshold(pj)

\* the place of the match behind context passage i
Origin(i) ==
    CHOOSE pj \in Places :
        Content(MatchAt(pj)) # <<>> /\ ContextAt(pj) = context_parts[i]

HasOrigin(i) ==
    \E pj \in Places :
        Content(MatchAt(pj)) # <<>> /\ ContextAt(pj) = context_parts[i]

\* C18: when some match of the result set has score > 0.1, every context
\* passage comes from a match with score > 0.1; matches at or below 0.1
\* are used only when no match exceeds it.
C18_OnlyAboveThreshold ==
    (pc = "returned" /\ ~raised) =>
        \A i \in 1..Len(context_parts) :
            /\ HasOrigin(i)
            /\ SomeAboveThreshold => AboveThreshold(Origin(i))

\* C18 witness: a match at exactly 0.1 ranked before one at 0.35; only
\* the second was used
C18_Witness ==
    /\ pc = "returned"
    /\ Len(search_results) = 1
    /\ AllScores(search_results) = <<10, 35>>
    /\ Len(context_parts) = 1
    /\ Origin(1) = <<1, 2>>

\* the match at pj passed the filter (or the raw fallback is in effect)
Survives(pj) == ~SomeAboveThreshold \/ AboveThreshold(pj)

PartitionCap == IF SomeAboveThreshold THEN 3 ELSE 2

\* pj is among the first PartitionCap surviving matches of its partition
AmongFirst(pj) ==
    /\ Survives(pj)
    /\ Cardinality({qj \in Places : /\ qj[1] = pj[1]
                                    /\ qj[2] < pj[2]
                                    /\ Survives(qj)}) < PartitionCap

\* C19: each partition contributes at most 3 context passages (at most 2
\* under the low-confidence fallback), taken from its first surviving
\* matches in their original order; partitions follow the key order of the
\* result set; there are at most 3 x (number of partitions) passages.
C19_CapsAndOrder ==
    (pc = "returned" /\ ~raised) =>
        /\ \A p \in 1..Len(search_results) :
               Cardinality({i \in 1..Len(context_parts) : Origin(i)[1] = p})
                   <= PartitionCap
        /\ \A i \in 1..Len(context_parts) : AmongFirst(Origin(i))
        /\ \A i, k \in 1..Len(context_parts) :
               i < k => \/ Origin(i)[1] < Origin(k)[1]
                        \/ /\ Origin(i)[1] = Origin(k)[1]
                           /\ Origin(i)[2] < Origin(k)[2]
        /\ Len(context_parts) =
               Cardinality({pj \in Places :
                               AmongFirst(pj) /\ Content(MatchAt(pj)) # <<>>})
        /\ Len(context_parts) <= 3 * Len(search_results)

\* C19 witness: four good matches in one partition, the first three used
C19_Witness ==
    /\ pc = "returned"
    /\ Len(search_results) = 1
    /\ AllScores(search_results) = <<35, 35, 35, 35>>
    /\ Len(context_parts) = 3
    /\ Origin(3) = <<1, 3>>

(***************************************************************************)
(* The processor: initialize, close and the two query operations, each     *)
(* query running select -> search (one partition at a time) -> analyze ->  *)
(* assemble -> answer -> return.                                           *)
(***************************************************************************)
Queries == {<<"Who is", "Hamlet">>, <<"What", "says", "Hamlet", "of", "sonnets">>}

Turn(role, content) == [role |-> role, content |-> content]

Histories ==
    {<<>>, <<Turn("user", <<"Who is", "Hamlet">>), Turn("assistant", <<"A prince.">>)>>}

NoRequest ==
    [op |-> "none", query |-> <<>>, conversation_history |-> <<>>,
     use_smart_selection |-> FALSE]

Requests ==
    {[op |-> "process_query", query |-> q, conversation_history |-> h,
      use_smart_selection |-> u] : q \in Queries, h \in Histories, u \in BOOLEAN}
    \cup {[op |-> "process_query_all_collections", query |-> q,
           conversation_history |-> h, use_smart_selection |-> FALSE] :
             q \in Queries, h \in Histories}

\* classification responses met by the processor: failure, one key, two
\* keys, a repeated key, no known key
SelectionResponses ==
    {[kind |-> "raise", content |-> <<>>],
     [kind |-> "text", content |-> <<"plays">>],
     [kind |-> "text", content |-> <<"sonnets", ",", " ", "poems">>],
     [kind |-> "text", content |-> <<"poems", ",", "poems">>],
     [kind |-> "text", content |-> <<"hamlet">>]}

\* generation responses: failure, a text of 10 characters, a longer one
GenerationResponses ==
    {[kind |-> "raise", content |-> <<>>],
     [kind |-> "text", content |-> <<"To be, or,">>],
     [kind |-> "text", content |-> <<" ", "To be, or,", "!">>]}

\* objects the store returns to the processor: a good match, a match
\* scored by distance only, one with neither score nor distance, a match
\* without content, and one whose properties are None
Shape(meta, props) ==
    [meta |-> TRUE, score |-> meta[1], distance |-> meta[2], properties |-> props]

ProcessorObjects(collection_name) ==
    LET props == SampleProperties(collection_name)
    IN  {Shape(<<35, 40>>, props),
         Shape(<<None, 95>>, props),
         Shape(<<0, 0>>, props),
         Shape(<<35, 40>>, [props EXCEPT !["content"] = <<" ">>]),
         Shape(<<35, 40>>, NoneDict)}

\* what the last of initialize, get_collection_stats and close gave back;
\* nothing before the first of them and once a query operation has started
NoReturn == [op |-> "none"]

Init ==
    /\ Idle
    /\ client \in BOOLEAN
    /\ pc = "idle"
    /\ req = NoRequest
    /\ backend = [kind |-> "none"]
    /\ ret = NoReturn

ConnectedAfterConnect(was_connected, connect_ok, collections_ok) ==
    IF connect_ok THEN TRUE ELSE was_connected

\* lines 29-41: _connected once initialize is over; a failed connect or
\* check returns before line 41 and leaves the flag as it was
ConnectedAfterInitialize(was_connected, connect_ok, collections_ok) ==
    IF connect_ok /\ collections_ok THEN TRUE ELSE was_connected

\* initialize(): lines 24-43; check_collections is only called once connect
\* succeeded
Initialize ==
    /\ pc = "idle"
    /\ \E connect_ok \in BOOLEAN :
       \E collections_ok \in IF connect_ok THEN BOOLEAN ELSE {FALSE} :
           /\ connected' = ConnectedAfterInitialize(connected, connect_ok,
                                                    collections_ok)
           /\ ret' = [op |-> "initialize", connect |-> connect_ok,
                      check_collections |-> collections_ok,
                      value |-> connect_ok /\ collections_ok]
    /\ UNCHANGED <<client, pc, req, pipelineLocals, response, calls, raised,
                   backend>>

\* the numbers of objects a partition can hold
StoreSizes == {0, MaxHits, IteratorLimit + 1}

\* search_client.get_collection_stats(), lines 64-80 of shakespeare_search.py
CollectionStats(sizes) ==
    [value |-> [i \in 1..Len(AllCollections) |->
                   [key |-> AllCollections[i],
                    count |-> Min(sizes[AllCollections[i]], IteratorLimit)]],
     calls |-> Concat([i \in 1..Len(AllCollections) |->
                          Call("collections.get", CollectionName(AllCollections[i]))
                          \o Call("iterator", CollectionName(AllCollections[i]))])]

\* get_collection_stats(): lines 45-49; the store can fail on the first
\* collection, and the exception goes to the caller
GetCollectionStats ==
    /\ pc = "idle"
    /\ IF ~connected
       THEN ret' = [op |-> "get_collection_stats", raised |-> FALSE,
                    value |-> <<>>, calls |-> <<>>]
       ELSE \/ \E sizes \in [PartitionKeys -> StoreSizes] :
                  ret' = [op |-> "get_collection_stats", raised |-> FALSE,
                          value |-> CollectionStats(sizes).value,
                          calls |-> CollectionStats(sizes).calls]
            \/ ret' = [op |-> "get_collection_stats", raised |-> TRUE,
                       value |-> <<>>,
                       calls |-> Call("collections.get", "ShakespearePlays")]
    /\ UNCHANGED <<connected, client, pc, req, pipelineLocals, response, calls,
                   raised, backend>>

\* close(): lines 172-176
Close ==
    /\ pc = "idle"
    /\ connected' = FALSE
    /\ ret' = [op |-> "close"]
    /\ UNCHANGED <<client, pc, req, pipelineLocals, response, calls, raised,
                   backend>>

\* lines 84-85 and 134-135: entry of a query operation
Query ==
    /\ pc = "idle"
    /\ \E r \in Requests : req' = r
    /\ IF connected
       THEN pc' = "select" /\ response' = NoResponse
       ELSE pc' = "done" /\ response' = Returned(NotInitialized)
    /\ ret' = NoReturn
    /\ UNCHANGED <<connected, client, pipelineLocals, calls, raised, backend>>

Selects == req.op = "process_query" /\ req.use_smart_selection /\ client

\* lines 91-98 and 141: the partitions to search
Select ==
    /\ pc = "select"
    /\ \E resp \in IF Selects THEN SelectionResponses
                   ELSE {[kind |-> "none", content |-> <<>>]} :
           LET chosen == CollectionsToSearch(req.op, req.use_smart_selection,
                                             client, resp)
           IN  /\ relevant_collections' = chosen
               /\ pending' = SelectSeq(chosen, LAMBDA k : k \in PartitionKeys)
    /\ calls' = calls \o (IF Selects THEN DetermineCalls(client) ELSE <<>>)
    /\ pc' = "search"
    /\ UNCHANGED <<connected, client, req, search_results, quality_analysis,
                   context_parts, citation_parts, response, raised, backend, ret>>

\* one iteration of the loop of search_relevant_collections (lines 233-238)
\* or search_all_collections (lines 246-249)
SearchNext ==
    /\ pc = "search"
    /\ pending # <<>>
    /\ \E mode \in Modes({"raise"}) :
       \E k \in 0..(IF Answers(mode)
                    THEN MaxHits - Len(AllResults(search_results)) ELSE 0) :
       \E objs \in [1..k -> ProcessorObjects(CollectionName(Head(pending)))] :
       \E failing \in Failing(CollectionName(Head(pending)), objs) :
           LET found == SearchCollection(CollectionName(Head(pending)),
                                         Store(mode, objs, failing))
           IN  /\ search_results' =
                      Collected(search_results, Head(pending), found.results)
               /\ calls' = calls \o found.calls
    /\ pending' = Tail(pending)
    /\ UNCHANGED <<connected, client, pc, req, relevant_collections,
                   quality_analysis, context_parts, citation_parts, response,
                   raised, backend, ret>>

\* lines 101-104 and 144-146
Analyze ==
    /\ pc = "search"
    /\ pending = <<>>
    /\ LET quality == AnalyzeSearchQuality(search_results)
       IN  IF quality.raised
           THEN /\ raised' = TRUE
                /\ response' = Caught("TypeError")
                /\ pc' = "done"
                /\ UNCHANGED quality_analysis
           ELSE /\ quality_analysis' = quality
                /\ pc' = "assemble"
                /\ UNCHANGED <<raised, response>>
    /\ UNCHANGED <<connected, client, req, relevant_collections, pending,
                   search_results, context_parts, citation_parts, calls,
                   backend, ret>>

\* lines 107-109 and 149-151
Assemble ==
    /\ pc = "assemble"
    /\ LET built == BuildContextFromResults(search_results)
       IN  /\ raised' = built.raised
           /\ context_parts' = built.context_parts
           /\ citation_parts' = built.citation_parts
           /\ IF built.raised
              THEN pc' = "done" /\ response' = Caught("AttributeError")
              ELSE pc' = "answer" /\ UNCHANGED response
    /\ UNCHANGED <<connected, client, req, relevant_collections, pending,
                   search_results, quality_analysis, calls, backend, ret>>

\* lines 111-126 and 153-166
Respond ==
    /\ pc = "answer"
    /\ \E gen \in IF /\ context_parts # <<>>
                     /\ UsesGeneration(req.op, client, quality_analysis.max_score)
                  THEN GenerationResponses
                  ELSE {[kind |-> "none", content |-> <<>>]} :
           LET answer == Answer(req.op, req.query, req.conversation_history,
                                client, quality_analysis.max_score,
                                context_parts, citation_parts, gen)
           IN  /\ response' = Returned(answer.text)
               /\ calls' = calls \o answer.calls
               /\ req' = [req EXCEPT !.conversation_history =
                                         answer.conversation_history]
    /\ pc' = "done"
    /\ UNCHANGED <<connected, client, pipelineLocals, raised, backend, ret>>

\* the caller takes the response; the locals of the call are gone
Return ==
    /\ pc = "done"
    /\ pc' = "idle"
    /\ req' = NoRequest
    /\ relevant_collections' = <<>>
    /\ pending' = <<>>
    /\ search_results' = <<>>
    /\ quality_analysis' = [max_score |-> 0]
    /\ context_parts' = <<>>
    /\ citation_parts' = <<>>
    /\ response' = NoResponse
    /\ calls' = <<>>
    /\ raised' = FALSE
    /\ UNCHANGED <<connected, client, backend, ret>>

Next ==
    \/ Initialize
    \/ GetCollectionStats
    \/ Close
    \/ Query
    \/ Select
    \/ SearchNext
    \/ Analyze
    \/ Assemble
    \/ Respond
    \/ Return

Spec == Init /\ [][Next]_vars
\* the calls of one api made so far by the running operation
CallsOf(api) == SelectSeq(calls, LAMBDA c : c.api = api)

\* the search loop of the running operation is over
Searched ==
    \/ pc = "search" /\ pending = <<>>
    \/ pc \in {"assemble", "answer"}
    \/ pc = "done" /\ connected

\* the running operation got past build_context_from_results
Assembled == pc = "done" /\ connected /\ ~raised

C4_NeverZeroPartitions ==
    (req.op = "process_query" /\ connected /\ Searched)
        => Len(CallsOf("collections.get")) >= 1

\* C4 witness: smart selection whose classification call raised; all three
\* partitions were searched before assembly
C4_Witness ==
    /\ pc = "assemble"
    /\ req.op = "process_query"
    /\ req.use_smart_selection
    /\ client
    /\ relevant_collections = AllCollections
    /\ Len(CallsOf("collections.get")) = 3

\* C5: when build_context_from_results returns empty lists, both query
\* operations return the fixed "couldn't find sufficiently relevant
\* passages" message, no generation call is made and the templated answer
\* is not built; no generation call is ever made with an empty context.
C5_EmptyContextShortCircuits ==
    /\ (Assembled /\ context_parts = <<>>)
           => /\ response = Returned(Insufficient(req.op))
              /\ CallsOf("generate") = <<>>
    /\ CallsOf("generate") # <<>> => context_parts # <<>>

\* C5 witness: the only match had blank content and a high score, the
\* client was available, and the fixed message came back
C5_Witness ==
    /\ Assembled
    /\ client
    /\ search_results # <<>>
    /\ quality_analysis.max_score > RelevanceThreshold
    /\ context_parts = <<>>
    /\ response = Returned(Insufficient(req.op))

\* C6: for every query answered through process_query or
\* process_query_all_collections, if the client is unavailable or the
\* maximum score of the result set is at or below 0.1, no generation call
\* is made and the answer is the templated answer built from the assembled
\* contexts and citations.
C6_TemplateAtOrBelowThreshold ==
    (/\ Assembled
     /\ context_parts # <<>>
     /\ (~client \/ quality_analysis.max_score <= RelevanceThreshold))
        => /\ CallsOf("generate") = <<>>
           /\ response = Returned(CreateFallbackResponse(req.query, context_parts,
                                                         citation_parts))

\* the positions of the calls of one api
Positions(api) == {i \in 1..Len(calls) : calls[i].api = api}

\* call i is a range fetch made by the search of the plays partition: the
\* search that was entered last before it is the one on ShakespearePlays
InsidePlaysSearch(i) ==
    \E j \in 1..(i - 1) :
        /\ calls[j].api = "collections.get"
        /\ \A k \in j..i : calls[k].target = "ShakespearePlays"

\* the calls made so far by a process_query run are in pipeline order
CallOrder ==
    req.op = "process_query" =>
        /\ Positions("classify") \subseteq {1}
        /\ \A i \in Positions("fetch_objects") : InsidePlaysSearch(i)
        /\ Positions("generate") \subseteq {Len(calls)}
        /\ Positions("generate") # {} => (pc = "done" /\ context_parts # <<>>)

\* once the search loop is over a process_query run makes no call but the
\* generation call, and none at all once it has its answer
NoCallOnceSearched ==
    (req.op = "process_query" /\ pc' # "idle") =>
        /\ pc \in {"assemble", "done"} => calls' = calls
        /\ pc = "answer" => calls' \in {calls, calls \o Call("generate", "llm")}

\* C26: in a process_query run at most one classification call is made,
\* before any search; every range fetch is made inside the search of the
\* plays partition; at most one generation call is made, after every search
\* and after context assembly; no backend call follows the generation call
\* or the templated answer.
C26_BackendCallOrder == []CallOrder /\ [][NoCallOnceSearched]_vars

\* C26 witness: classification, the plays search with its range fetch, and
\* the generation call, in that order
C26_Witness ==
    /\ pc = "done"
    /\ req.op = "process_query"
    /\ Len(calls) = 5
    /\ [i \in 1..5 |-> calls[i].api]
           = <<"classify", "collections.get", "hybrid", "fetch_objects", "generate">>

\* the search_collection calls made so far on the partition of key
SearchesOf(key) ==
    {i \in Positions("collections.get") : calls[i].target = CollectionName(key)}

\* C27: determine_relevant_collections returns no partition key more than
\* once, even when the classification response repeats a key, and a
\* process_query run calls search_collection at most once per partition key.
C27_NoPartitionTwice ==
    req.op = "process_query" =>
        /\ \A i, j \in 1..Len(relevant_collections) :
               relevant_collections[i] = relevant_collections[j] => i = j
        /\ \A key \in PartitionKeys : Cardinality(SearchesOf(key)) <= 1

(***************************************************************************)
(* search_relevant_collections and search_all_collections alone: every     *)
(* partition answers each query with its own list of at most MaxListed     *)
(* objects, or fails.                                                      *)
(***************************************************************************)
\* the i-th object of a partition, in the backend's relevance order
ListedObject(collection_name, i) ==
    Shape(<<35, 40>>, [SampleProperties(collection_name) EXCEPT
                          !["content"] = <<"match ", Str(i)>>])

PartitionStores(key) ==
    {Store(mode, [i \in 1..k |-> ListedObject(CollectionName(key), i)], {}) :
        mode \in {m \in Modes({"raise"}) : Answers(m)}, k \in 0..MaxListed}
    \cup {Store(mode, <<>>, {}) : mode \in {m \in Modes({"raise"}) : ~Answers(m)}}

\* collection_types as the caller passes them: keys, repeated keys and
\* names that are no partition
CollectionTypes == SeqUpTo(PartitionKeys \cup {"hamlet"}, MaxAsked)

InitResultSet ==
    /\ Idle
    /\ client = FALSE
    /\ \/ \E collection_types \in CollectionTypes :
              req = [op |-> "search_relevant_collections",
                     collection_types |-> collection_types]
       \/ req = [op |-> "search_all_collections",
                 collection_types |-> AllCollections]
    /\ \E plays \in PartitionStores("plays"), sonnets \in PartitionStores("sonnets"),
          poems \in PartitionStores("poems") :
           backend = [plays |-> plays, sonnets |-> sonnets, poems |-> poems]
    /\ pc = "call"
    /\ ret = <<>>

\* one iteration of the loop, lines 233-238 and 246-249; here pending holds
\* the entries of collection_types the loop is done with
SearchPartition ==
    /\ pc = "call"
    /\ pending # req.collection_types
    /\ LET collection_type == req.collection_types[Len(pending) + 1]
       IN  IF collection_type \in PartitionKeys
           THEN LET found == SearchCollection(CollectionName(collection_type),
                                              backend[collection_type])
                IN  /\ search_results' =
                           Collected(search_results, collection_type, found.results)
                    /\ calls' = calls \o found.calls
                    /\ pending' = Append(pending, collection_type)
           ELSE /\ pending' = Append(pending, collection_type)
                /\ UNCHANGED <<search_results, calls>>
    /\ UNCHANGED <<connected, client, pc, req, relevant_collections,
                   quality_analysis, context_parts, citation_parts, response,
                   raised, backend, ret>>

\* lines 240 and 251: return all_results
ReturnResultSet ==
    /\ pc = "call"
    /\ pending = req.collection_types
    /\ ret' = search_results
    /\ pc' = "returned"
    /\ UNCHANGED <<connected, client, req, pipelineLocals, response, calls,
                   raised, backend>>

NextResultSet == SearchPartition \/ ReturnResultSet

SpecResultSet == InitResultSet /\ [][NextResultSet]_vars

\* the keys of a result set, in dict order
Keys(sr) == [p \in 1..Len(sr) |-> sr[p].key]

\* the place where key is asked for first
FirstAsked(key) ==
    CHOOSE i \in 1..Len(req.collection_types) :
        /\ req.collection_types[i] = key
        /\ \A j \in 1..(i - 1) : req.collection_types[j] # key

\* C28: the keys of the result set are among the partitions asked for and
\* in the order they were searched; no key maps to an empty list; every
\* list holds the records the backend returned for that partition, in the
\* backend's order, none dropped, reordered or duplicated.
C28_ResultSetShape ==
    pc = "returned" =>
        /\ \A p \in 1..Len(ret) :
               /\ ret[p].key \in PartitionKeys
               /\ \E i \in 1..Len(req.collection_types) :
                      req.collection_types[i] = ret[p].key
               /\ ret[p].results # <<>>
               /\ Len(ret[p].results) = Len(backend[ret[p].key].objs)
               /\ \A i \in 1..Len(ret[p].results) :
                      ret[p].results[i].properties
                          = backend[ret[p].key].objs[i].properties
        /\ \A p, q \in 1..Len(ret) :
               p < q => FirstAsked(ret[p].key) < FirstAsked(ret[q].key)

\* C28 witness: poems and sonnets were asked for in that order; the sonnets
\* search found nothing and the two poems records came back in order
C28_Witness ==
    /\ pc = "returned"
    /\ req.collection_types = <<"poems", "sonnets">>
    /\ Keys(ret) = <<"poems">>
    /\ Len(ret[1].results) = 2
    /\ ret[1].results[1].properties.content = <<"match ", "1">>
    /\ ret[1].results[2].properties.content = <<"match ", "2">>

\* what holds of the processor while it is not connected: a query
\* operation has returned the fixed text without a single call, or nothing
\* runs; get_collection_stats gave an empty mapping without a call; and
\* after close the processor is not connected
LifecycleStates ==
    /\ ~connected =>
           /\ pc \in {"idle", "done"}
           /\ calls = <<>>
           /\ pc = "done" => response = Returned(NotInitialized)
           /\ ret.op = "get_collection_stats" =>
                  /\ ~ret.raised
                  /\ ret.value = <<>>
                  /\ ret.calls = <<>>
    /\ ret.op = "close" => ~connected

\* the processor becomes connected in a step of initialize in which connect
\* and check_collections both succeeded, whether or not the Generation
\* Service is available, and no step but close ends that
LifecycleSteps ==
    /\ (~connected /\ connected') =>
           /\ ret'.op = "initialize"
           /\ ret'.connect
           /\ ret'.check_collections
    /\ (connected /\ ~connected') => ret'.op = "close"

\* C29: over any sequence of initialize, process_query,
\* process_query_all_collections, get_collection_stats and close the
\* processor is connected only after an initialize in which connect and
\* check_collections both succeeded, close ends that state, and while not
\* connected the query operations return the 'not initialized' text and
\* get_collection_stats an empty mapping, without any store or generation
\* call.
C29_ConnectionLifecycle == []LifecycleStates /\ [][LifecycleSteps]_vars

\* C29 witness: a processor that is not connected and has no Generation
\* Service answered process_query with the fixed text, without a call
C29_Witness ==
    /\ pc = "done"
    /\ ~connected
    /\ ~client
    /\ req.op = "process_query"
    /\ response = Returned(NotInitialized)
    /\ calls = <<>>

(***************************************************************************)
(* build_context_from_results on passages whose citation fields are        *)
(* missing, zero or set: one partition, at most MaxCited matches.          *)
(***************************************************************************)
\* an optional INT property: unset, 0, or n
Optional(n) == {None, 0, n}

CitedProperties(key) ==
    CASE key = "plays" ->
             {[content |-> <<"to be">>, title |-> <<"Hamlet">>, act |-> a,
               scene |-> sc, speaker |-> sp] :
                 a \in Optional(3), sc \in Optional(1),
                 sp \in {<<>>, <<"HAMLET">>}}
             \cup {[content |-> <<"to be">>, act |-> a, scene |-> sc,
                    speaker |-> <<"HAMLET">>] :
                      a \in Optional(3), sc \in Optional(1)}
      [] key = "sonnets" ->
             {[content |-> <<"shall I compare thee">>, sonnet_number |-> n] :
                 n \in Optional(8)}
      [] key = "poems" ->
             {[content |-> <<"even as the sun">>, title |-> <<"Venus and Adonis">>,
               stanza_number |-> n] : n \in Optional(1)}
             \cup {[content |-> <<"even as the sun">>, stanza_number |-> n] :
                      n \in Optional(1)}

InitCite ==
    /\ connected = FALSE
    /\ client = FALSE
    /\ req = [op |-> "build_context_from_results"]
    /\ relevant_collections = <<>>
    /\ pending = <<>>
    /\ quality_analysis = [max_score |-> 0]
    /\ context_parts = <<>>
    /\ citation_parts = <<>>
    /\ response = NoResponse
    /\ calls = <<>>
    /\ raised = FALSE
    /\ backend = [kind |-> "none"]
    /\ ret = <<>>
    /\ pc = "call"
    /\ \E key \in PartitionKeys : \E n \in 1..MaxCited :
       \E properties \in [1..n -> CitedProperties(key)] :
           search_results =
               <<[key |-> key,
                  results |-> [i \in 1..n |-> [properties |-> properties[i],
                                               score |-> 35, distance |-> 40]]]>>

SpecCite == InitCite /\ [][NextAssemble]_vars

\* the part introduced by token occurs in the citation
Shown(citation, token) == \E j \in 1..Len(citation) : citation[j] = token

\* the citation tells everything the passage carries, and nothing else
Faithful(key, props, citation) ==
    CASE key = "plays" ->
             /\ StartsWith(citation, Get(props, "title", <<"Unknown Play">>))
             /\ Shown(citation, " (Act ") <=> props.act # None
             /\ Shown(citation, ", Scene ") <=> props.scene # None
             /\ Shown(citation, " - ") <=> props.speaker # <<>>
      [] key = "sonnets" ->
             citation = IF props.sonnet_number # None
                        THEN <<"Sonnet ", Str(props.sonnet_number)>>
                        ELSE <<"a sonnet">>
      [] key = "poems" ->
             /\ StartsWith(citation, Get(props, "title", <<"Unknown Poem">>))
             /\ Shown(citation, " (Stanza ") <=> props.stanza_number # None

\* C25: a citation omits exactly the absent parts: the act/scene part, the
\* speaker, the sonnet number and the stanza number are shown iff the
\* passage carries them, a number equal to 0 or an act without a scene
\* included.
C25_CitationOmitsExactlyAbsent ==
    (pc = "returned" /\ req.op = "build_context_from_results"
         /\ Len(search_results) = 1
         /\ Len(citation_parts) = Len(search_results[1].results)) =>
        \A i \in 1..Len(citation_parts) :
            Faithful(search_results[1].key,
                     search_results[1].results[i].properties, citation_parts[i])

(***************************************************************************)
(* generate_response alone: up to MaxPairs assembled (context, citation)   *)
(* pairs, histories of 0, 2 and MaxTurns turns, with and without a client, *)
(* and every outcome of the generation call.                               *)
(***************************************************************************)
PairKeys == {"plays", "sonnets"}

\* a pair as build_context_from_results builds it for a match of key
SamplePair(key) ==
    LET match == MatchOf(key, [score |-> 35, content |-> "text"])
    IN  [context |-> Context(key, match),
         citation |-> Citation(key, match.properties)]

LongHistory(n) ==
    [i \in 1..n |-> Turn(IF i % 2 = 1 THEN "user" ELSE "assistant",
                         <<"turn ", Str(i)>>)]

GenerateHistories == {<<>>, LongHistory(2), LongHistory(MaxTurns)}

\* the generation call: the outcomes the processor meets, no choices, an
\* empty content, and a text that is short once trimmed
GenerateOutcomes ==
    GenerationResponses
    \cup {[kind |-> "no_choices", content |-> <<>>],
          [kind |-> "text", content |-> <<>>],
          [kind |-> "text", content |-> <<" ", "To be", " ">>]}

InitGenerate ==
    /\ Idle
    /\ client \in BOOLEAN
    /\ \E n \in 0..MaxPairs : \E keys \in [1..n -> PairKeys] :
       \E query \in Queries, history \in GenerateHistories :
           req = [op |-> "generate_response", query |-> query,
                  context_parts |-> [i \in 1..n |-> SamplePair(keys[i]).context],
                  citation_parts |-> [i \in 1..n |-> SamplePair(keys[i]).citation],
                  conversation_history |-> history]
    /\ backend \in IF client THEN GenerateOutcomes
                   ELSE {[kind |-> "none", content |-> <<>>]}
    /\ pc = "call"
    /\ ret = <<>>

Generate ==
    /\ pc = "call"
    /\ LET generated == GenerateResponse(req.query, req.context_parts,
                                         req.citation_parts,
                                         req.conversation_history, client, backend)
       IN  /\ ret' = generated
           /\ calls' = generated.calls
           /\ req' = [req EXCEPT !.conversation_history =
                                     generated.conversation_history]
    /\ pc' = "returned"
    /\ UNCHANGED <<connected, client, pipelineLocals, response, raised, backend>>

NextGenerate == Generate

SpecGenerate == InitGenerate /\ [][NextGenerate]_vars

(***************************************************************************)
(* _create_fallback_response alone, on queries of at most MaxWords words.  *)
(***************************************************************************)
QueryWords == {"Who is", "Who Was", "What", "say", "SAYS", "Sonnets", "Hamlet"}

InitTemplate ==
    /\ Idle
    /\ client = FALSE
    /\ \E n \in 0..MaxWords : \E query \in [1..n -> QueryWords] :
       \E k \in 0..MaxPairs :
           req = [op |-> "_create_fallback_response", query |-> query,
                  context_parts |-> [i \in 1..k |-> SamplePair("plays").context],
                  citation_parts |-> [i \in 1..k |-> SamplePair("plays").citation]]
    /\ backend = [kind |-> "none", content |-> <<>>]
    /\ pc = "call"
    /\ ret = <<>>

CreateFallback ==
    /\ pc = "call"
    /\ ret' = [text |-> CreateFallbackResponse(req.query, req.context_parts,
                                               req.citation_parts)]
    /\ pc' = "returned"
    /\ UNCHANGED <<connected, client, req, pipelineLocals, response, calls,
                   raised, backend>>

NextTemplate == CreateFallback

SpecTemplate == InitTemplate /\ [][NextTemplate]_vars

\* the query has one of the words, in any letter case
HasAny(words) == \E i \in 1..Len(req.query) : req.query[i] \in words

AsksWho == HasAny({"Who is", "Who Was"})

AsksSay == HasAny({"say", "SAYS"})

AsksWhat == HasAny({"What"})

AsksSonnet == HasAny({"Sonnets"})

Biographical ==
    <<"Based on the passages I found, here's what Shakespeare's works tell us:">>

Dialogue ==
    <<"Here are the relevant passages where characters speak about this topic:">>

Verse == <<"I found these relevant sonnets:">>

Generic == <<"Here are the most relevant passages from Shakespeare's works:">>

\* the first line of the returned text
OpeningLine == Split(ret.text, "\n")[1]

\* C23 as stated: who is/who was, else say, else sonnet, else generic.
C23_Original ==
    pc = "returned" =>
        OpeningLine = IF AsksWho THEN Biographical
                      ELSE IF AsksSay THEN Dialogue
                      ELSE IF AsksSonnet THEN Verse
                      ELSE Generic

\* C23: the opening line is chosen from the query, whatever its letter
\* case, in this priority: 'who is' or 'who was' gives the biographical
\* opening; otherwise 'what' together with 'say' (or 'says') gives the
\* dialogue opening; otherwise 'sonnet' gives the verse opening; every
\* other query gets the generic opening.
C23_OpeningPriority ==
    pc = "returned" =>
        OpeningLine = IF AsksWho THEN Biographical
                      ELSE IF AsksWhat /\ AsksSay THEN Dialogue
                      ELSE IF AsksSonnet THEN Verse
                      ELSE Generic

\* C23 witness: a query with 'says' and 'sonnets' but without 'what' got
\* the verse opening
C23_Witness ==
    /\ pc = "returned"
    /\ req.op = "_create_fallback_response"
    /\ AsksSay /\ AsksSonnet /\ ~AsksWhat /\ ~AsksWho
    /\ OpeningLine = Verse

(***************************************************************************)
(* build_context_from_results followed by _create_fallback_response, on    *)
(* at most MaxCited matches of one partition whose title, speaker or       *)
(* content may hold ": ".                                                  *)
(***************************************************************************)
Titles == {<<"Hamlet">>, <<"Henry IV", ": ", "Part 1">>}

Speakers == {<<"HAMLET">>, <<"HAMLET", ": ", "aside">>}

Contents == {<<"to be">>, <<"mark", ": ", "to be">>}

\* the results search_collection can have built for such passages; a plays
\* passage with play name and sequence number comes with its window
PrintedMatches(key) ==
    CASE key = "plays" ->
             {[properties |-> [content |-> c, title |-> t, act |-> 3,
                               scene |-> 1, speaker |-> sp],
               score |-> 35, distance |-> 40] :
                 c \in Contents, t \in Titles, sp \in Speakers}
             \cup {AddPlayContext(
                       [properties |-> [content |-> c, title |-> t, act |-> 3,
                                        scene |-> 1, speaker |-> <<"HAMLET">>,
                                        sequence_no |-> 2, play |-> <<"hamlet">>],
                        score |-> 35, distance |-> 40],
                       Fetched(FetchObjects(<<"hamlet">>, ContextStart(2),
                                            ContextEnd(2)))) :
                     c \in Contents, t \in Titles}
      [] key = "sonnets" ->
             {[properties |-> [content |-> c, sonnet_number |-> 8],
               score |-> 35, distance |-> 40] : c \in Contents}
      [] key = "poems" ->
             {[properties |-> [content |-> c, title |-> t, stanza_number |-> 1],
               score |-> 35, distance |-> 40] : c \in Contents, t \in Titles}

InitRoundTrip ==
    /\ connected = FALSE
    /\ client = FALSE
    /\ relevant_collections = <<>>
    /\ pending = <<>>
    /\ quality_analysis = [max_score |-> 0]
    /\ response = NoResponse
    /\ calls = <<>>
    /\ raised = FALSE
    /\ backend = [kind |-> "none", content |-> <<>>]
    /\ ret = <<>>
    /\ pc = "call"
    /\ \E key \in PartitionKeys : \E n \in 1..MaxCited :
       \E results \in [1..n -> PrintedMatches(key)] :
           /\ search_results = <<[key |-> key, results |-> results]>>
           /\ context_parts = BuildContextFromResults(search_results).context_parts
           /\ citation_parts = BuildContextFromResults(search_results).citation_parts
           /\ \E query \in Queries :
                  req = [op |-> "_create_fallback_response", query |-> query,
                         context_parts |-> context_parts,
                         citation_parts |-> citation_parts]

SpecRoundTrip == InitRoundTrip /\ [][NextTemplate]_vars

\* the enriched content build_context_from_results put into context i
Enriched(i) ==
    LET result == search_results[1].results[i]
    IN  IF search_results[1].key = "plays"
        THEN BuildEnhancedContent(Content(result), result)
        ELSE Content(result)

\* C30: for every (context, citation) pair that build_context_from_results
\* produced, the passage text printed under the bold label of the templated
\* answer is the enriched content of the match, whatever ": " the title,
\* the speaker or the content hold.
C30_PassageTextRoundTrip ==
    (pc = "returned" /\ search_results # <<>>) =>
        \A i \in 1..Len(context_parts) :
            /\ context_parts[i] = <<"From ">> \o citation_parts[i] \o <<": ">>
                                      \o Enriched(i)
            /\ Split(ret.text, "\n")[3 * i + 1] = Enriched(i)

\* the templated answer for the arguments of the call
Templated ==
    CreateFallbackResponse(req.query, req.context_parts, req.citation_parts)

\* C15: generate_response returns the templated answer when the generation
\* call raises, returns no content, or returns a text of fewer than 10
\* characters once trimmed; a trimmed text of 10 or more characters is
\* returned as it is.
C15_TrimmedTextFromTenChars ==
    (pc = "returned" /\ client) =>
        IF backend.kind = "text" /\ StrLen(Strip(backend.content)) >= 10
        THEN ret.text = Strip(backend.content)
        ELSE ret.text = Templated

\* the answer of the call is the templated one whatever the thresholds
TemplateReturned == pc = "returned" /\ (~client \/ backend.kind # "text")

\* the lines of a text
Lines(text) == Split(text, "\n")

\* the passage text of a context "From <citation>: <passage text>"
PassageText(context, citation) ==
    SubSeq(context, Len(citation) + 3, Len(context))

\* C16: the templated answer lists the first min(5, n) (context, citation)
\* pairs in input order as entries 1..min(5, n), each a bold label
\* "**i. <citation>:**" followed by the passage text of that pair, and it
\* closes with the multi-passage line iff more than one passage was given.
C16_TemplateEnumeratesPairs ==
    TemplateReturned =>
        LET lines == Lines(ret.text)
            n == Len(req.context_parts)
            m == IF n < 5 THEN n ELSE 5
        IN  /\ Len(lines) = 3 * m + 3
            /\ \A i \in 1..m :
                   /\ lines[3 * i] =
                          <<"**", Str(i), ". ">> \o req.citation_parts[i] \o <<":**">>
                   /\ lines[3 * i + 1] =
                          PassageText(req.context_parts[i], req.citation_parts[i])
            /\ lines[Len(lines)] = Closing(2) <=> n > 1
            /\ lines[Len(lines)] \in {Closing(1), Closing(2)}

\* C16 witness: six pairs were given, five were listed, the two first
\* citations differ and are shown in input order
C16_Witness ==
    /\ TemplateReturned
    /\ Len(req.context_parts) = 6
    /\ Len(Lines(ret.text)) = 18
    /\ req.citation_parts[1] # req.citation_parts[2]
    /\ SubSeq(Lines(ret.text)[3], 4, 3 + Len(req.citation_parts[1]))
           = req.citation_parts[1]
    /\ Lines(ret.text)[18] = Closing(2)

\* the generation call was made
Sent == pc = "returned" /\ req.op = "generate_response" /\ client

\* the part of the user prompt between the question and the closing request
PassagesSent ==
    LET content == ret.messages[Len(ret.messages)].content
    IN  SubSeq(content, Len(req.query) + 3, Len(content) - 1)

\* C24: the messages sent to the Generation Service are one system
\* instruction, then the last min(6, len(history)) turns of the history in
\* their order, then one user message with the question and the first
\* min(5, n) context passages in input order: at most 8 messages.
C24_MessageList ==
    Sent =>
        LET messages == ret.messages
            history == req.conversation_history
            k == IF Len(history) < 6 THEN Len(history) ELSE 6
            n == Len(req.context_parts)
            m == IF n < 5 THEN n ELSE 5
            prompt == messages[Len(messages)]
        IN  /\ Len(messages) = k + 2
            /\ Len(messages) <= 8
            /\ messages[1].role = "system"
            /\ \A i \in 1..k : messages[1 + i] = history[Len(history) - k + i]
            /\ prompt.role = "user"
            /\ SubSeq(prompt.content, 1, Len(req.query) + 1)
                   = <<"Question: ">> \o req.query
            /\ PassagesSent = Join([i \in 1..m |-> req.context_parts[i]], "\n\n")

\* C24 witness: seven turns and six passages were given; six turns and five
\* passages were sent
C24_Witness ==
    /\ Sent
    /\ Len(req.conversation_history) = 7
    /\ Len(req.context_parts) = 6
    /\ Len(ret.messages) = 8
    /\ ret.messages[2] = req.conversation_history[2]
    /\ Len(Split(PassagesSent, "\n\n")) = 5

\* C17: while a query operation runs, the caller's conversation history
\* keeps its turns: no step of process_query,
\* process_query_all_collections or generate_response changes the list.
C17_HistoryUntouched ==
    [][(pc # "idle" /\ pc' # "idle")
           => req'.conversation_history = req.conversation_history]_vars

\* C17 witness: a generation call was made with a history of two turns
C17_Witness ==
    /\ pc = "done"
    /\ CallsOf("generate") # <<>>
    /\ Len(req.conversation_history) = 2
====
